---- MODULE Spec2Model ----
(***************************************************************************)
(* Fingerprint matching service (match_service2.py): the in-memory         *)
(* employee index with its rebuild / incremental add, the 1:N             *)
(* identification request, the Matcher's acceptance policy and the         *)
(* multi-template verification with its worker pool.                       *)
(*                                                                         *)
(* The endpoints are plain `def` handlers, which the framework runs on a   *)
(* thread pool: several calls run at once over the module's globals, and   *)
(* no lock guards any of them.  A thread's step is one read or one write   *)
(* of a global.                                                            *)
(*                                                                         *)
(* Abstractions.  A 128-D embedding row is identified by the employee it   *)
(* was computed from.  A descriptor set is represented by its keypoint     *)
(* count; the number of ratio-test survivors of a probe against a template *)
(* (the score) is an input.  Percentages are kept as integers:             *)
(* FP_MIN_PERCENT 0.055 is 55 per mille, FP_MARGIN_PERCENT 0.10 is 10 per  *)
(* cent; Python's round() is round-half-to-even.                           *)
(***************************************************************************)
EXTENDS Integers, Sequences, FiniteSets, TLC

\* ------------------------------------------------------------------------
\* Configuration defaults (environment variables not set)
\* ------------------------------------------------------------------------
FP_MIN_BASE == 45
FP_MIN_PERCENT_PER_MILLE == 55
FP_CONF_MIN == 65
FP_CONF_HIGH == 85
FP_MIN_KEYPOINTS == 200
FP_MIN_KEYPOINTS_WARN == 160
FP_HIGH_CONF_KP == 525
FP_MARGIN_BASE == 3
FP_MARGIN_PERCENT_PCT == 10
FP_ABS_MIN_SCORE == 45
FP_SINGLE_TEMPLATE_MARGIN_MIN == 5
FP_SINGLE_TEMPLATE_MARGIN_RATIO_PCT == 10
MAX_WORKERS == 4
TOP_K_DEFAULT == 5
MIN_DESCRIPTORS == 10

\* ------------------------------------------------------------------------
\* Small helpers
\* ------------------------------------------------------------------------
Max(a, b) == IF a >= b THEN a ELSE b
Min(a, b) == IF a <= b THEN a ELSE b

\* Python's None for an optional integer: the empty sequence; <<v>> is v.
None == <<>>
Some(v) == <<v>>

\* Python int(round(x * pct / 100)) for a non-negative integer x: half to even.
RoundPercent(x, pct) ==
    LET q == (x * pct) \div 100
        r == (x * pct) % 100
    IN  IF r < 50 THEN q
        ELSE IF r > 50 THEN q + 1
        ELSE IF q % 2 = 0 THEN q ELSE q + 1

RECURSIVE SeqMax(_)
SeqMax(s) == IF Len(s) = 0 THEN 0
             ELSE Max(Head(s), SeqMax(Tail(s)))

\* ------------------------------------------------------------------------
\* Matcher: thresholds (compute_threshold, compute_margin)
\* ------------------------------------------------------------------------
compute_threshold(min_keypoints, override) ==
    IF override # None
    THEN Max(1, override[1])
    ELSE Max(Max(FP_MIN_BASE, (min_keypoints * FP_MIN_PERCENT_PER_MILLE) \div 1000), 1)

\* The percent margin truncated instead of rounded.
compute_marginTruncated(threshold) ==
    Max(FP_MARGIN_BASE, (threshold * FP_MARGIN_PERCENT_PCT) \div 100)

compute_margin(threshold) ==
    Max(FP_MARGIN_BASE, RoundPercent(threshold, FP_MARGIN_PERCENT_PCT))

\* ------------------------------------------------------------------------
\* Matcher: _base_match_payload and match_feature_sets.
\* A feature set is [success, keypoints, error, is_precomputed]; its
\* descriptor matrix has `keypoints` rows.  `score` is the number of probe
\* descriptors that survive the ratio test against the template.
\* ------------------------------------------------------------------------
\* The payload with the probe's quality judged by FP_MIN_KEYPOINTS.
BaseMatchPayloadMinKeypoints(probe, template) ==
    [accepted            |-> FALSE,
     score               |-> 0,
     threshold_used      |-> 0,
     required_score      |-> 0,
     confidence          |-> 0,
     confidence_required |-> FP_CONF_MIN,
     min_keypoints       |-> Min(probe.keypoints, template.keypoints),
     probe_keypoints     |-> probe.keypoints,
     template_keypoints  |-> template.keypoints,
     probe_quality_ok    |-> probe.keypoints > FP_MIN_KEYPOINTS,
     is_precomputed      |-> FALSE,
     reason              |-> "None"]

BaseMatchPayload(probe, template) ==
    [accepted            |-> FALSE,
     score               |-> 0,
     threshold_used      |-> 0,
     required_score      |-> 0,
     confidence          |-> 0,
     confidence_required |-> FP_CONF_MIN,
     min_keypoints       |-> Min(probe.keypoints, template.keypoints),
     probe_keypoints     |-> probe.keypoints,
     template_keypoints  |-> template.keypoints,
     probe_quality_ok    |-> probe.keypoints >= FP_MIN_KEYPOINTS_WARN,
     is_precomputed      |-> FALSE,
     reason              |-> "None"]

\* The strict gates with the threshold tested before the absolute minimum.
StrictGatesThresholdFirst(score, threshold, required_score) ==
    IF score < threshold THEN "score_below_threshold"
    ELSE IF score < FP_ABS_MIN_SCORE THEN "score_below_abs_min"
    ELSE IF score < required_score THEN "insufficient_margin"
    ELSE "pass"

\* The strict gates without the absolute minimum.
StrictGatesNoAbsMin(score, threshold, required_score) ==
    IF score < threshold THEN "score_below_threshold"
    ELSE IF score < required_score THEN "insufficient_margin"
    ELSE "pass"

\* The gates after the score is known (lines 1340-1397).
StrictGates(score, threshold, required_score) ==
    IF score < FP_ABS_MIN_SCORE THEN "score_below_abs_min"
    ELSE IF score < threshold THEN "score_below_threshold"
    ELSE IF score < required_score THEN "insufficient_margin"
    ELSE "pass"

\* The lenient gates with a precomputed template held to 12 points above
\* the lenient threshold.
LenientGatesWideMargin(score, threshold, required_score, is_precomputed) ==
    LET abs_min_for_precomputed ==
            IF is_precomputed THEN Max(38, (FP_ABS_MIN_SCORE * 85) \div 100)
            ELSE FP_ABS_MIN_SCORE
        threshold_with_leniency == Max(abs_min_for_precomputed, threshold - 7)
    IN  IF score < abs_min_for_precomputed THEN "score_below_abs_min"
        ELSE IF is_precomputed
             THEN IF score < threshold_with_leniency THEN "score_below_threshold"
                  ELSE IF score < threshold_with_leniency + 12 THEN "insufficient_margin"
                  ELSE "pass"
             ELSE IF score < threshold THEN "score_below_threshold"
                  ELSE IF score < required_score THEN "insufficient_margin"
                  ELSE "pass"

\* The lenient gates with the lenient threshold left below the floor.
LenientGatesUnclamped(score, threshold, required_score, is_precomputed) ==
    LET abs_min_for_precomputed ==
            IF is_precomputed THEN Max(38, (FP_ABS_MIN_SCORE * 85) \div 100)
            ELSE FP_ABS_MIN_SCORE
        threshold_with_leniency == threshold - 7
    IN  IF score < abs_min_for_precomputed THEN "score_below_abs_min"
        ELSE IF is_precomputed
             THEN IF score < threshold_with_leniency THEN "score_below_threshold"
                  ELSE IF score < threshold_with_leniency + 3 THEN "insufficient_margin"
                  ELSE "pass"
             ELSE IF score < threshold THEN "score_below_threshold"
                  ELSE IF score < required_score THEN "insufficient_margin"
                  ELSE "pass"

\* The lenient gates with a precomputed template allowed 20 points below
\* the threshold.
LenientGatesDeepLeniency(score, threshold, required_score, is_precomputed) ==
    LET abs_min_for_precomputed ==
            IF is_precomputed THEN Max(38, (FP_ABS_MIN_SCORE * 85) \div 100)
            ELSE FP_ABS_MIN_SCORE
        threshold_with_leniency == Max(abs_min_for_precomputed, threshold - 20)
    IN  IF score < abs_min_for_precomputed THEN "score_below_abs_min"
        ELSE IF is_precomputed
             THEN IF score < threshold_with_leniency THEN "score_below_threshold"
                  ELSE IF score < threshold_with_leniency + 3 THEN "insufficient_margin"
                  ELSE "pass"
             ELSE IF score < threshold THEN "score_below_threshold"
                  ELSE IF score < required_score THEN "insufficient_margin"
                  ELSE "pass"

LenientGates(score, threshold, required_score, is_precomputed) ==
    LET abs_min_for_precomputed ==
            IF is_precomputed THEN Max(38, (FP_ABS_MIN_SCORE * 85) \div 100)
            ELSE FP_ABS_MIN_SCORE
        threshold_with_leniency == Max(abs_min_for_precomputed, threshold - 7)
    IN  IF score < abs_min_for_precomputed THEN "score_below_abs_min"
        ELSE IF is_precomputed
             THEN IF score < threshold_with_leniency THEN "score_below_threshold"
                  ELSE IF score < threshold_with_leniency + 3 THEN "insufficient_margin"
                  ELSE "pass"
             ELSE IF score < threshold THEN "score_below_threshold"
                  ELSE IF score < required_score THEN "insufficient_margin"
                  ELSE "pass"

match_feature_sets(probe, template, score, threshold_override, strict_mode) ==
    LET payload == BaseMatchPayload(probe, template)
        min_keypoints == payload.min_keypoints
        threshold == compute_threshold(min_keypoints, threshold_override)
        margin == compute_margin(threshold)
        required_score == threshold + margin
        confidence == Min(100, (score * 100) \div threshold)
        conf_required == IF min_keypoints >= FP_HIGH_CONF_KP
                         THEN FP_CONF_HIGH ELSE FP_CONF_MIN
        scored == [payload EXCEPT !.score = score,
                                  !.threshold_used = threshold,
                                  !.required_score = required_score,
                                  !.confidence = confidence,
                                  !.confidence_required = conf_required,
                                  !.is_precomputed = template.is_precomputed]
        gate == IF strict_mode
                THEN StrictGates(score, threshold, required_score)
                ELSE LenientGates(score, threshold, required_score,
                                  template.is_precomputed)
    IN  IF ~probe.success THEN [payload EXCEPT !.reason = probe.error]
        ELSE IF ~template.success THEN [payload EXCEPT !.reason = template.error]
        ELSE IF probe.keypoints < MIN_DESCRIPTORS
                \/ template.keypoints < MIN_DESCRIPTORS
             THEN [payload EXCEPT !.reason = "insufficient_descriptors"]
        ELSE IF ~payload.probe_quality_ok
             THEN [scored EXCEPT !.reason = "probe_low_quality"]
        ELSE IF gate # "pass" THEN [scored EXCEPT !.reason = gate]
        ELSE IF confidence < conf_required
             THEN [scored EXCEPT !.reason = "confidence_low"]
        ELSE [scored EXCEPT !.accepted = TRUE, !.reason = "match"]

\* ------------------------------------------------------------------------
\* Identification: evaluation of the shortlisted records (identify_employee,
\* lines 2041-2203).  An index record is
\*   [employee_id, shape, tkps]
\* where tkps holds the keypoint count of each loaded template (1..4) and
\* shape says under which key the record keeps its templates:
\* "list" (template_features_list, written by rebuild_employee_index) or
\* "single" (template_features, written by add_employee_to_index).
\* ------------------------------------------------------------------------
TemplateFeatures(tkp) ==
    [success |-> TRUE, keypoints |-> tkp, error |-> "None", is_precomputed |-> TRUE]

\* Position of the first maximal score: Python's max(..., key=score).
RECURSIVE FirstMaxFrom(_, _, _)
FirstMaxFrom(results, i, best) ==
    IF i > Len(results) THEN best
    ELSE FirstMaxFrom(results, i + 1,
                      IF results[i].score > results[best].score THEN i ELSE best)

\* The evaluation of a record with acceptance read off the score alone.
EvalEmployeeByScoreAlone(rec, probe, scores, threshold_override) ==
    LET template_results ==
            [i \in 1..Len(rec.tkps) |->
                match_feature_sets(probe, TemplateFeatures(rec.tkps[i]),
                                   scores[i], threshold_override, TRUE)]
        b == FirstMaxFrom(template_results, 2, 1)
        best_template_result == template_results[b]
    IN  [employee_id         |-> rec.employee_id,
         accepted            |-> best_template_result.score >= FP_ABS_MIN_SCORE,
         score               |-> best_template_result.score,
         reason              |-> best_template_result.reason,
         threshold_used      |-> best_template_result.threshold_used,
         required_score      |-> best_template_result.required_score,
         confidence          |-> best_template_result.confidence,
         template_index      |-> b,
         all_template_scores |-> [i \in 1..Len(rec.tkps) |-> template_results[i].score]]

\* Lines 2052-2078: the probe against every template of one record, in
\* strict mode; the employee's result is the first highest-scoring one.
EvalEmployee(rec, probe, scores, threshold_override) ==
    LET template_results ==
            [i \in 1..Len(rec.tkps) |->
                match_feature_sets(probe, TemplateFeatures(rec.tkps[i]),
                                   scores[i], threshold_override, TRUE)]
        b == FirstMaxFrom(template_results, 2, 1)
        best_template_result == template_results[b]
    IN  [employee_id         |-> rec.employee_id,
         accepted            |-> best_template_result.accepted,
         score               |-> best_template_result.score,
         reason              |-> best_template_result.reason,
         threshold_used      |-> best_template_result.threshold_used,
         required_score      |-> best_template_result.required_score,
         confidence          |-> best_template_result.confidence,
         template_index      |-> b,
         all_template_scores |-> [i \in 1..Len(rec.tkps) |-> template_results[i].score]]

\* Lines 2083-2097: accepted beats unaccepted, then the higher score; the
\* earlier candidate keeps ties.
BetterCandidate(new, best) ==
    \/ new.accepted /\ ~best.accepted
    \/ new.accepted /\ best.accepted /\ new.score > best.score
    \/ ~best.accepted /\ new.score > best.score

RECURSIVE SelectBestFrom(_, _, _)
SelectBestFrom(cands, i, best) ==
    IF i > Len(cands) THEN best
    ELSE SelectBestFrom(cands, i + 1,
                        IF BetterCandidate(cands[i], cands[best]) THEN i ELSE best)

SelectBest(cands) == SelectBestFrom(cands, 2, 1)

\* Lines 2120-2126: the highest score of any other employee (0 if none).
RECURSIVE SecondBestFrom(_, _, _, _)
SecondBestFrom(cands, i, best_emp_id, acc) ==
    IF i > Len(cands) THEN acc
    ELSE SecondBestFrom(cands, i + 1, best_emp_id,
                        IF cands[i].employee_id # best_emp_id /\ cands[i].score > acc
                        THEN cands[i].score ELSE acc)

\* The margin of a small index, whatever the size of the index.
MinMarginOfSmallIndex(num_employees) == 10

\* Lines 2132-2138.
MinMargin(num_employees) ==
    IF num_employees <= 4 THEN 10
    ELSE IF num_employees <= 10 THEN 12
    ELSE 15

\* The templates whose score is at least half of the best score.
GoodTemplatesHalf(all_template_scores, best_score) ==
    Cardinality({i \in 1..Len(all_template_scores) :
                    10 * all_template_scores[i] >= 5 * best_score})

\* Line 2162: templates whose score is at least 0.6 of the best score.
GoodTemplates(all_template_scores, best_score) ==
    Cardinality({i \in 1..Len(all_template_scores) :
                    10 * all_template_scores[i] >= 6 * best_score})

\* The gates with the margin required only of three candidates or more.
AntiFalsePositiveFromThree(best, cands, num_employees) ==
    LET best_score == best.score
        second_best_score == SecondBestFrom(cands, 1, best.employee_id, 0)
        margin_of_victory == best_score - second_best_score
        min_margin == MinMargin(num_employees)
        l3 == IF Len(cands) > 2 /\ margin_of_victory < min_margin
              THEN [accepted |-> FALSE, reason |-> "ambiguous_match_margin"]
              ELSE [accepted |-> best.accepted, reason |-> best.reason]
        l4 == IF best_score < FP_ABS_MIN_SCORE
              THEN [accepted |-> FALSE, reason |-> "score_too_low"]
              ELSE l3
        l5 == IF Len(best.all_template_scores) >= 3
                 /\ GoodTemplates(best.all_template_scores, best_score) < 2
              THEN [accepted |-> FALSE, reason |-> "inconsistent_templates"]
              ELSE l4
    IN  IF best.accepted THEN l5
        ELSE [accepted |-> best.accepted, reason |-> best.reason]

\* Lines 2116-2167: the gates applied to an accepted best result, each later
\* gate overwriting the reason of an earlier one.  Gives [accepted, reason].
AntiFalsePositive(best, cands, num_employees) ==
    LET best_score == best.score
        second_best_score == SecondBestFrom(cands, 1, best.employee_id, 0)
        margin_of_victory == best_score - second_best_score
        min_margin == MinMargin(num_employees)
        l3 == IF Len(cands) > 1 /\ margin_of_victory < min_margin
              THEN [accepted |-> FALSE, reason |-> "ambiguous_match_margin"]
              ELSE [accepted |-> best.accepted, reason |-> best.reason]
        min_absolute_score == IF FP_ABS_MIN_SCORE > 0 THEN FP_ABS_MIN_SCORE ELSE 45
        l4 == IF best_score < min_absolute_score
              THEN [accepted |-> FALSE, reason |-> "score_too_low"]
              ELSE l3
        l5 == IF Len(best.all_template_scores) >= 3
                 /\ GoodTemplates(best.all_template_scores, best_score) < 2
              THEN [accepted |-> FALSE, reason |-> "inconsistent_templates"]
              ELSE l4
    IN  IF best.accepted THEN l5
        ELSE [accepted |-> best.accepted, reason |-> best.reason]

\* A response of identify_employee.  employee_id 0 stands for None; status
\* 200 is a returned body, 500 an HTTPException or an uncaught exception.
EarlyResponse(reason, probe_kp) ==
    [status |-> 200, matched |-> FALSE, employee_id |-> 0,
     decision_reason |-> reason, probe_keypoints |-> probe_kp,
     best_score |-> 0, candidates |-> <<>>]

ErrorResponse(detail) ==
    [status |-> 500, matched |-> FALSE, employee_id |-> 0,
     decision_reason |-> detail, probe_keypoints |-> 0,
     best_score |-> 0, candidates |-> <<>>]

\* Lines 2099-2203 once every shortlisted record is evaluated.
IdentifyDecision(cands, num_employees, probe_kp) ==
    IF Len(cands) = 0 THEN EarlyResponse("no_valid_results", probe_kp)
    ELSE
      LET b == SelectBest(cands)
          gated == AntiFalsePositive(cands[b], cands, num_employees)
      IN  [status |-> 200,
           matched |-> gated.accepted,
           employee_id |-> IF gated.accepted THEN cands[b].employee_id ELSE 0,
           decision_reason |-> IF gated.accepted THEN "match_found" ELSE gated.reason,
           probe_keypoints |-> probe_kp,
           best_score |-> cands[b].score,
           candidates |-> [i \in 1..Len(cands) |->
                              [employee_id |-> cands[i].employee_id,
                               score |-> cands[i].score,
                               accepted |-> IF i = b THEN gated.accepted
                                            ELSE cands[i].accepted]]]

\* ------------------------------------------------------------------------
\* Verification: match_templates (lines 1655-1956) and its workers
\* (_process_single_template, lines 1579-1653).
\* A template of a request is [kind, kp, score]:
\*   "empty"            no data
\*   "precomputed"      a serialized template of kp keypoints
\*   "undeserializable" the prefix of one, that does not deserialize
\*   "image"            a raw image in which the extractor finds kp keypoints
\*   "undecodable"      a string that decodes to no image
\* ------------------------------------------------------------------------
NoTemplate == [success |-> FALSE, keypoints |-> 0, error |-> "None", is_precomputed |-> FALSE]

\* load_precomputed_template (lines 1096-1146) / prepare_features (1148-1224).
LoadTemplate(tmpl) ==
    IF tmpl.kind = "precomputed"
    THEN [success |-> tmpl.kp >= MIN_DESCRIPTORS, keypoints |-> tmpl.kp,
          error |-> IF tmpl.kp >= MIN_DESCRIPTORS THEN "None" ELSE "insufficient_features",
          is_precomputed |-> TRUE]
    ELSE IF tmpl.kind = "undeserializable"
    THEN [success |-> FALSE, keypoints |-> 0, error |-> "deserialization_failed",
          is_precomputed |-> TRUE]
    ELSE IF tmpl.kind = "undecodable"
    THEN [success |-> FALSE, keypoints |-> 0, error |-> "decode_failed",
          is_precomputed |-> FALSE]
    ELSE [success |-> tmpl.kp >= MIN_DESCRIPTORS, keypoints |-> tmpl.kp,
          error |-> IF tmpl.kp >= MIN_DESCRIPTORS THEN "None" ELSE "insufficient_features",
          is_precomputed |-> FALSE]

\* The probe as the worker rebuilds it (lines 1584-1596).
WorkerProbe(probe_kp) ==
    [success |-> TRUE, keypoints |-> probe_kp, error |-> "None", is_precomputed |-> FALSE]

\* A payload that stands for a template nobody matched.
PlaceholderPayload(probe_kp, reason) ==
    [BaseMatchPayload(WorkerProbe(probe_kp), NoTemplate) EXCEPT !.reason = reason]

\* _process_single_template: what the future of a template resolves to.
\* The payload's is_precomputed is the result's _is_precomputed key.
ProcessSingleTemplate(tmpl, probe_kp, threshold_override) ==
    LET probe == WorkerProbe(probe_kp)
        features == LoadTemplate(tmpl)
    IN  IF tmpl.kind = "empty" THEN PlaceholderPayload(probe_kp, "empty_template")
        ELSE IF tmpl.kind \in {"precomputed", "undeserializable"} /\ ~features.success
        THEN [BaseMatchPayload(probe, features) EXCEPT !.reason = features.error]
        ELSE [match_feature_sets(probe, features, tmpl.score, threshold_override, FALSE)
                EXCEPT !.is_precomputed = features.is_precomputed]

\* Lines 1745-1749: a collected result ends the collection early.
EarlyExitTriggeredFromTwo(result, total_template_count) ==
    /\ result.accepted
    /\ result.confidence >= FP_CONF_HIGH + 15
    /\ total_template_count >= 2

EarlyExitTriggered(result, total_template_count) ==
    /\ result.accepted
    /\ result.confidence >= FP_CONF_HIGH + 15
    /\ total_template_count >= 3

\* Lines 1799-1811: the best result, in template order.
SelectBestTemplate(results) == SelectBestFrom(results, 2, 1)

\* Lines 1813-1816: the positions of the templates that were evaluated.
NonEmptyTemplates(results) ==
    {i \in 1..Len(results) :
        results[i].reason \notin {"empty_template", "decode_failed", "enhancement_failed",
                                  "insufficient_features", "cancelled_early_exit"}}

\* Lines 1821-1830: the highest-scoring evaluated template other than the
\* best one, the first of them on ties; 0 when there is none.
RECURSIVE SecondarySupportFrom(_, _, _, _, _)
SecondarySupportFrom(results, i, best, sec, sec_score) ==
    IF i > Len(results) THEN sec
    ELSE IF i \in NonEmptyTemplates(results) /\ i # best /\ results[i].score > sec_score
         THEN SecondarySupportFrom(results, i + 1, best, i, results[i].score)
         ELSE SecondarySupportFrom(results, i + 1, best, sec, sec_score)

SecondarySupport(results, best) == SecondarySupportFrom(results, 1, best, 0, -1)

\* The tier gate with a very strong primary excused from secondary support.
SecondaryValidStrongAlone(primary, secondary) ==
    \/ primary.score >= 70
    \/ IF primary.score >= 60
       THEN LET secondary_min_threshold ==
                    Max(45, (secondary.threshold_used * 80) \div 100)
            IN  IF secondary.is_precomputed
                THEN \/ (secondary.score >= secondary.required_score - 2
                         /\ secondary.score >= 45)
                     \/ secondary.score >= secondary_min_threshold
                ELSE secondary.score >= 45 /\ secondary.score >= secondary_min_threshold
       ELSE secondary.accepted /\ secondary.score >= FP_ABS_MIN_SCORE

\* The tier gate with a weak primary asking only that the Matcher accepted
\* the secondary.
SecondaryValidAcceptedAlone(primary, secondary) ==
    LET support_score == secondary.score
        support_required == secondary.required_score
        secondary_threshold == secondary.threshold_used
    IN  IF primary.score >= 70
        THEN support_score >= 45
             /\ support_score >= Max(45, (secondary_threshold * 85) \div 100)
        ELSE IF primary.score >= 60
        THEN LET secondary_min_threshold == Max(45, (secondary_threshold * 80) \div 100)
             IN  IF secondary.is_precomputed
                 THEN \/ (support_score >= support_required - 2 /\ support_score >= 45)
                      \/ support_score >= secondary_min_threshold
                 ELSE support_score >= 45 /\ support_score >= secondary_min_threshold
        ELSE secondary.accepted

\* Lines 1851-1880: the tier gate on the secondary template.
SecondaryValid(primary, secondary) ==
    LET support_score == secondary.score
        support_required == secondary.required_score
        secondary_threshold == secondary.threshold_used
    IN  IF primary.score >= 70
        THEN support_score >= 45
             /\ support_score >= Max(45, (secondary_threshold * 85) \div 100)
        ELSE IF primary.score >= 60
        THEN LET secondary_min_threshold == Max(45, (secondary_threshold * 80) \div 100)
             IN  IF secondary.is_precomputed
                 THEN \/ (support_score >= support_required - 2 /\ support_score >= 45)
                      \/ support_score >= secondary_min_threshold
                 ELSE support_score >= 45 /\ support_score >= secondary_min_threshold
        ELSE secondary.accepted /\ support_score >= FP_ABS_MIN_SCORE

\* The verdict with no margin asked of the best result beside a secondary.
VerifyVerdictNoPrimaryMargin(results) ==
    LET b == SelectBestTemplate(results)
        best == results[b]
        template_count == Cardinality(NonEmptyTemplates(results))
        sec == SecondarySupport(results, b)
        dynamic_margin == Max(FP_SINGLE_TEMPLATE_MARGIN_MIN,
                              RoundPercent(best.required_score,
                                           FP_SINGLE_TEMPLATE_MARGIN_RATIO_PCT))
    IN  IF ~best.accepted THEN [accepted |-> FALSE, reason |-> best.reason]
        ELSE IF template_count >= 2 /\ sec # 0
        THEN IF ~SecondaryValid(best, results[sec])
             THEN [accepted |-> FALSE, reason |-> "secondary_template_disagrees"]
             ELSE [accepted |-> TRUE, reason |-> "match_found"]
        ELSE IF template_count >= 2
        THEN [accepted |-> FALSE, reason |-> "secondary_template_required"]
        ELSE IF best.score < best.required_score + dynamic_margin
        THEN [accepted |-> FALSE, reason |-> "single_template_margin"]
        ELSE [accepted |-> TRUE, reason |-> "match_found"]

\* Lines 1832-1925: the verdict on the best result: [accepted, reason].
VerifyVerdict(results) ==
    LET b == SelectBestTemplate(results)
        best == results[b]
        template_count == Cardinality(NonEmptyTemplates(results))
        sec == SecondarySupport(results, b)
        primary_margin == best.score - best.required_score
        min_primary_margin == IF best.is_precomputed THEN 3 ELSE 5
        dynamic_margin == Max(FP_SINGLE_TEMPLATE_MARGIN_MIN,
                              RoundPercent(best.required_score,
                                           FP_SINGLE_TEMPLATE_MARGIN_RATIO_PCT))
    IN  IF ~best.accepted THEN [accepted |-> FALSE, reason |-> best.reason]
        ELSE IF template_count >= 2 /\ sec # 0
        THEN IF ~SecondaryValid(best, results[sec]) \/ primary_margin < min_primary_margin
             THEN [accepted |-> FALSE, reason |-> "secondary_template_disagrees"]
             ELSE [accepted |-> TRUE, reason |-> "match_found"]
        ELSE IF template_count >= 2
        THEN [accepted |-> FALSE, reason |-> "secondary_template_required"]
        ELSE IF best.score < best.required_score + dynamic_margin
        THEN [accepted |-> FALSE, reason |-> "single_template_margin"]
        ELSE [accepted |-> TRUE, reason |-> "match_found"]

\* A response of match_templates; best_template_index 0 stands for none.
VerifyEarlyResponse(status, reason, probe_kp) ==
    [status |-> status, accepted |-> FALSE, decision_reason |-> reason,
     probe_keypoints |-> probe_kp, best_template_index |-> 0, best_score |-> 0,
     template_results |-> <<>>, early_exit_used |-> FALSE]

\* Lines 1786-1947 on the results in template order.  The best result is
\* the very dictionary listed in template_results, so a verdict that turns
\* it down shows there too.
VerifyResponse(results, probe_kp, early_exit_used) ==
    LET b == SelectBestTemplate(results)
        v == VerifyVerdict(results)
    IN  [status |-> 200, accepted |-> v.accepted, decision_reason |-> v.reason,
         probe_keypoints |-> probe_kp, best_template_index |-> b,
         best_score |-> results[b].score,
         template_results |->
            [i \in 1..Len(results) |->
                [template_index |-> results[i].template_index,
                 accepted |-> IF i = b THEN v.accepted ELSE results[i].accepted,
                 score |-> results[i].score,
                 reason |-> IF i = b /\ results[b].accepted /\ ~v.accepted
                            THEN v.reason ELSE results[i].reason]],
         early_exit_used |-> early_exit_used]

\* ------------------------------------------------------------------------
\* The external store (rh.tbl_empleados), read by the index builders.
\* A row is [activo, gzip, png, legacy_gzip, legacy_png, kp]: the four
\* huella_gzip_N and the four huella_N columns, the huella_gzip / huella
\* columns that add_employee_to_index queries, and the keypoint count of a
\* template loaded from the row.  A column value is one of
\*   "empty"   NULL or ''
\*   "ok"      well-formed: H4sI... that deserializes / iVBOR... that decodes
\*   "corrupt" the right prefix, but loading it fails
\*   "badfmt"  10 characters or more without the prefix
\*   "short"   non-empty, fewer than 10 characters
\* ------------------------------------------------------------------------
NUM_SLOTS == 4

\* Lines 310-408: whether slot i of a row yields a loaded template.
SlotLoads(row, i) ==
    LET g == row.gzip[i]
        p == row.png[i]
    IN  IF g = "empty" /\ p = "empty" THEN FALSE
        ELSE IF g \in {"ok", "corrupt", "badfmt"} THEN g = "ok"
        ELSE p = "ok"

RECURSIVE LoadedTemplates(_, _)
LoadedTemplates(row, i) ==
    IF i > NUM_SLOTS THEN <<>>
    ELSE (IF SlotLoads(row, i) THEN <<row.kp>> ELSE <<>>)
         \o LoadedTemplates(row, i + 1)

\* Lines 255-268: the WHERE clause of the scan.
RowSelected(row) ==
    /\ row.activo
    /\ \/ row.gzip[1] # "empty"
       \/ row.png[1] # "empty"

\* Lines 289-446: the records built from the rows, ORDER BY id_empleado.
RECURSIVE ScanRows(_, _, _)
ScanRows(db, e, last) ==
    IF e > last THEN <<>>
    ELSE LET tkps == IF RowSelected(db[e]) THEN LoadedTemplates(db[e], 1) ELSE <<>>
         IN  (IF Len(tkps) = 0 THEN <<>>
              ELSE << [employee_id |-> e, shape |-> "list", tkps |-> tkps] >>)
             \o ScanRows(db, e + 1, last)

\* Lines 542-617: what add_employee_to_index loads for one employee:
\* <<>> when it returns False, else the one record it will append.
AddLoaded(row, e) ==
    IF ~row.activo THEN <<>>
    ELSE IF row.legacy_gzip \in {"ok", "corrupt"}
         THEN IF row.legacy_gzip = "ok"
              THEN << [employee_id |-> e, shape |-> "single", tkps |-> <<row.kp>>] >>
              ELSE <<>>
    ELSE IF row.legacy_png = "ok"
         THEN << [employee_id |-> e, shape |-> "single", tkps |-> <<row.kp>>] >>
    ELSE <<>>

\* ------------------------------------------------------------------------
\* The index globals and the writes of its two builders.
\* An optional array is [none, rows]; a row is the employee it embeds.
\* ------------------------------------------------------------------------
NoArray == [none |-> TRUE, rows |-> <<>>]
Array(rows) == [none |-> FALSE, rows |-> rows]

EmptyGlobals ==
    [EMPLOYEE_VECTORS     |-> NoArray,
     EMPLOYEE_TEMPLATES   |-> <<>>,
     EMPLOYEE_IDS         |-> <<>>,
     EMPLOYEE_INDEX_READY |-> FALSE,
     FAISS_INDEX          |-> NoArray]

IdsOf(records) == [i \in 1..Len(records) |-> records[i].employee_id]

\* The assignments rebuild_employee_index makes, in program order, for each
\* of its outcomes: "ok" (lines 468-484), "empty" (lines 459-466), "error"
\* (the except clause, lines 488-497) and "nodriver" (lines 243-246).
RebuildWrites(kind, records, faissAvailable) ==
    CASE kind = "ok" ->
           << [var |-> "EMPLOYEE_VECTORS",     val |-> Array(IdsOf(records))],
              [var |-> "EMPLOYEE_TEMPLATES",   val |-> records],
              [var |-> "EMPLOYEE_IDS",         val |-> IdsOf(records)],
              [var |-> "FAISS_INDEX",
               val |-> IF faissAvailable THEN Array(IdsOf(records)) ELSE NoArray],
              [var |-> "EMPLOYEE_INDEX_READY", val |-> TRUE] >>
      [] kind = "empty" ->
           << [var |-> "EMPLOYEE_VECTORS",     val |-> NoArray],
              [var |-> "EMPLOYEE_TEMPLATES",   val |-> <<>>],
              [var |-> "EMPLOYEE_IDS",         val |-> <<>>],
              [var |-> "EMPLOYEE_INDEX_READY", val |-> FALSE],
              [var |-> "FAISS_INDEX",          val |-> NoArray] >>
      [] kind = "error" ->
           << [var |-> "EMPLOYEE_INDEX_READY", val |-> FALSE],
              [var |-> "EMPLOYEE_VECTORS",     val |-> NoArray],
              [var |-> "EMPLOYEE_TEMPLATES",   val |-> <<>>],
              [var |-> "EMPLOYEE_IDS",         val |-> <<>>],
              [var |-> "FAISS_INDEX",          val |-> NoArray] >>
      [] OTHER ->
           << [var |-> "EMPLOYEE_INDEX_READY", val |-> FALSE] >>

\* What the scan of rebuild_employee_index comes to: the outcome and the
\* records it will install.
RebuildOutcome(driver, dbFails, db, lastEmp) ==
    IF ~driver THEN [kind |-> "nodriver", records |-> <<>>]
    ELSE IF dbFails THEN [kind |-> "error", records |-> <<>>]
    ELSE LET records == ScanRows(db, 1, lastEmp)
         IN  IF Len(records) = 0 THEN [kind |-> "empty", records |-> <<>>]
             ELSE [kind |-> "ok", records |-> records]

RebuildReturns(kind) == kind = "ok"

ApplyWrite(g, w) == [g EXCEPT ![w.var] = w.val]

RECURSIVE ApplyWrites(_, _, _)
ApplyWrites(g, ws, i) ==
    IF i > Len(ws) THEN g ELSE ApplyWrites(ApplyWrite(g, ws[i]), ws, i + 1)

\* ------------------------------------------------------------------------
\* State
\* ------------------------------------------------------------------------
VARIABLES
    db,                   \* the external store: employee -> row
    PSYCOPG2_AVAILABLE,   \* fixed at import
    FAISS_AVAILABLE,      \* fixed at import
    configured_force_basic, \* FP_FORCE_BASIC as the environment set it
    FP_FORCE_BASIC,       \* the global flag
    globals,              \* the five index globals
    stamp,                \* per index global: the builder call that wrote it last
    started,              \* the startup event has run
    th,                   \* thread -> the call it runs and its locals
    budget,               \* calls and store changes still allowed
    unit                  \* the function under study and its arguments, when a
                          \* specification exercises one function by itself

vars == <<db, PSYCOPG2_AVAILABLE, FAISS_AVAILABLE, configured_force_basic,
          FP_FORCE_BASIC, globals, stamp, started, th, budget, unit>>

\* Bounds of the model
NumThreads == 2
NumEmployees == 3
MaxBuilds == 2        \* reload_index / sync_employee / rebuild-on-demand calls
MaxIdentify == 2      \* identify_employee calls
MaxDbChanges == 1     \* enrolments / deactivations in the store

Threads == 1..NumThreads
Employees == 1..NumEmployees

\* Rows of the store used by the index specification.
RowAbsent ==
    [activo |-> FALSE,
     gzip |-> <<"empty", "empty", "empty", "empty">>,
     png  |-> <<"empty", "empty", "empty", "empty">>,
     legacy_gzip |-> "empty", legacy_png |-> "empty", kp |-> 200]

RowEnrolled ==
    [activo |-> TRUE,
     gzip |-> <<"ok", "empty", "empty", "empty">>,
     png  |-> <<"empty", "empty", "empty", "empty">>,
     legacy_gzip |-> "ok", legacy_png |-> "empty", kp |-> 200]

\* Probes: the keypoints the extractor finds and the employee the finger
\* belongs to (0: nobody enrolled).  The probe scores ProbeStrong against
\* its owner's templates and ProbeWeak against anybody else's.
ProbeKeypoints == {5, 100, 200}
ProbeStrong == 70
ProbeWeak == 20

ProbeFeatures(kp) ==
    [success |-> kp >= MIN_DESCRIPTORS, keypoints |-> kp,
     error |-> IF kp >= MIN_DESCRIPTORS THEN "None" ELSE "insufficient_features",
     is_precomputed |-> FALSE]

ProbeScores(owner, rec) ==
    [i \in 1..Len(rec.tkps) |->
        IF rec.employee_id = owner THEN ProbeStrong ELSE ProbeWeak]

\* max_candidates of a request: None (the default k) or 1.
MaxCandidatesChoices == {None, Some(1)}

\* A thread that runs nothing.
Idle ==
    [op |-> "idle", pc |-> "idle", call |-> 0,
     emp |-> 0,                \* sync_employee's path parameter
     probe_kp |-> 0, owner |-> 0, k |-> 0,
     original_force_basic |-> FALSE,
     enhanced_with_basic |-> <<>>,  \* the flag enhance_fingerprint_professional read
     rb |-> [kind |-> "none", records |-> <<>>], step |-> 0,
     pre |-> EmptyGlobals,     \* the globals when the builder was entered
     snap |-> NoArray,         \* add: EMPLOYEE_VECTORS as read for np.vstack
     loaded |-> <<>>,          \* add: the record to append
     shortlist |-> <<>>, shortlisted |-> {}, i |-> 0, cands |-> <<>>,
     reads |-> {},             \* stamps of the index globals the request read
     nn_queried |-> FALSE, matcher_calls |-> 0,
     result |-> "none",        \* builders: "true" / "false"
     resp |-> ErrorResponse("none")]

NoUnit == [fn |-> "none"]

InitCommon ==
    /\ unit = NoUnit
    /\ PSYCOPG2_AVAILABLE \in BOOLEAN
    /\ FAISS_AVAILABLE \in BOOLEAN
    /\ configured_force_basic \in BOOLEAN
    /\ FP_FORCE_BASIC = configured_force_basic
    /\ globals = EmptyGlobals
    /\ stamp = [EMPLOYEE_VECTORS |-> 0, EMPLOYEE_TEMPLATES |-> 0, EMPLOYEE_IDS |-> 0,
                EMPLOYEE_INDEX_READY |-> 0, FAISS_INDEX |-> 0]
    /\ started = FALSE
    /\ th = [t \in Threads |-> Idle]
    /\ budget = [builds |-> MaxBuilds, identify |-> MaxIdentify, dbchanges |-> MaxDbChanges]

Init ==
    /\ InitCommon
    /\ db = [e \in Employees |-> IF e < NumEmployees THEN RowEnrolled ELSE RowAbsent]

\* The id of the next builder call (1 is the startup build).
NextCall == (MaxBuilds - budget.builds) + 2

Free(t) == th[t].pc \in {"idle", "done"}
Quiet == \A t \in Threads : Free(t)

\* ------------------------------------------------------------------------
\* The store changes under the service (enrolment, deactivation).
\* ------------------------------------------------------------------------
\* A change commutes with every step but a read of the store, so it is
\* taken right before one (or between calls).
StoreIsRead == Quiet \/ \E t \in Threads : th[t].pc \in {"rb_scan", "add_query"}

Enroll(e) ==
    /\ budget.dbchanges > 0 /\ StoreIsRead
    /\ ~db[e].activo
    /\ db' = [db EXCEPT ![e] = RowEnrolled]
    /\ budget' = [budget EXCEPT !.dbchanges = @ - 1]
    /\ UNCHANGED <<unit, PSYCOPG2_AVAILABLE, FAISS_AVAILABLE, configured_force_basic,
                   FP_FORCE_BASIC, globals, stamp, started, th>>

Deactivate(e) ==
    /\ budget.dbchanges > 0 /\ StoreIsRead
    /\ db[e].activo
    /\ db' = [db EXCEPT ![e] = RowAbsent]
    /\ budget' = [budget EXCEPT !.dbchanges = @ - 1]
    /\ UNCHANGED <<unit, PSYCOPG2_AVAILABLE, FAISS_AVAILABLE, configured_force_basic,
                   FP_FORCE_BASIC, globals, stamp, started, th>>

\* ------------------------------------------------------------------------
\* startup_event (lines 67-79): the whole rebuild, before any request is
\* served.
\* ------------------------------------------------------------------------
StartupWith(failures) ==
    /\ ~started
    /\ \E dbFails \in failures :
         LET o == RebuildOutcome(PSYCOPG2_AVAILABLE, dbFails, db, NumEmployees)
             ws == RebuildWrites(o.kind, o.records, FAISS_AVAILABLE)
         IN  /\ globals' = ApplyWrites(globals, ws, 1)
             /\ stamp' = [v \in DOMAIN stamp |->
                            IF \E j \in 1..Len(ws) : ws[j].var = v THEN 1 ELSE stamp[v]]
    /\ started' = TRUE
    /\ UNCHANGED <<unit, db, PSYCOPG2_AVAILABLE, FAISS_AVAILABLE, configured_force_basic,
                   FP_FORCE_BASIC, th, budget>>

Startup == StartupWith(BOOLEAN)

Others == <<db, PSYCOPG2_AVAILABLE, FAISS_AVAILABLE, configured_force_basic, unit>>

\* A builder's reply: reload_index's body (lines 2231-2247) or
\* sync_employee's (lines 2214-2223), reduced to status and outcome.
BuilderResponse(status, outcome) ==
    [status |-> status, matched |-> FALSE, employee_id |-> 0,
     decision_reason |-> outcome, probe_keypoints |-> 0,
     best_score |-> 0, candidates |-> <<>>]

\* ------------------------------------------------------------------------
\* rebuild_employee_index, run by reload_index or on demand by
\* ensure_employee_index_ready (lines 502-506).
\* ------------------------------------------------------------------------
StartReload(t) ==
    /\ started /\ Free(t) /\ budget.builds > 0
    /\ th' = [th EXCEPT ![t] = [Idle EXCEPT !.op = "reload", !.pc = "rb_scan",
                                            !.call = NextCall, !.pre = globals]]
    /\ budget' = [budget EXCEPT !.builds = @ - 1]
    /\ UNCHANGED <<Others, FP_FORCE_BASIC, globals, stamp, started>>

\* Lines 243-457: connect, query, load every row.
RebuildScan(t) ==
    /\ th[t].pc = "rb_scan"
    /\ \E dbFails \in BOOLEAN :
         th' = [th EXCEPT ![t].rb = RebuildOutcome(PSYCOPG2_AVAILABLE, dbFails,
                                                   db, NumEmployees),
                          ![t].step = 1,
                          ![t].pc = "rb_write"]
    /\ UNCHANGED <<Others, FP_FORCE_BASIC, globals, stamp, started, budget>>

\* What the caller does with rebuild's return value.
AfterRebuild(me, ok) ==
    IF me.op = "reload"
    THEN [me EXCEPT !.pc = "done",
                    !.result = IF ok THEN "true" ELSE "false",
                    !.resp = BuilderResponse(200, IF ok THEN "success" ELSE "error")]
    ELSE IF ok
         THEN [me EXCEPT !.pc = "chk_vec", !.result = "true"]
         ELSE [me EXCEPT !.pc = "done", !.result = "false",
                         !.resp = ErrorResponse("index_not_ready")]

\* One assignment to an index global; after the last one rebuild returns.
RebuildWrite(t) ==
    /\ th[t].pc = "rb_write"
    /\ LET me == th[t]
           ws == RebuildWrites(me.rb.kind, me.rb.records, FAISS_AVAILABLE)
           w  == ws[me.step]
       IN  /\ globals' = ApplyWrite(globals, w)
           /\ stamp' = [stamp EXCEPT ![w.var] = me.call]
           /\ th' = [th EXCEPT ![t] =
                        IF me.step < Len(ws)
                        THEN [me EXCEPT !.step = @ + 1]
                        ELSE AfterRebuild(me, RebuildReturns(me.rb.kind))]
    /\ UNCHANGED <<Others, FP_FORCE_BASIC, started, budget>>

\* ------------------------------------------------------------------------
\* sync_employee -> add_employee_to_index
\* ------------------------------------------------------------------------
StartSync(t, e) ==
    /\ started /\ Free(t) /\ budget.builds > 0
    /\ th' = [th EXCEPT ![t] = [Idle EXCEPT !.op = "sync", !.pc = "add_check",
                                            !.emp = e, !.call = NextCall,
                                            !.pre = globals]]
    /\ budget' = [budget EXCEPT !.builds = @ - 1]
    /\ UNCHANGED <<Others, FP_FORCE_BASIC, globals, stamp, started>>

\* Lines 2211-2212 and 517-524.
AddCheck(t) ==
    /\ th[t].pc = "add_check"
    /\ LET me == th[t]
       IN  th' = [th EXCEPT ![t] =
                IF ~PSYCOPG2_AVAILABLE
                THEN [me EXCEPT !.pc = "done", !.result = "false",
                                !.resp = BuilderResponse(500, "psycopg2_not_available")]
                ELSE IF \E j \in 1..Len(globals.EMPLOYEE_IDS) :
                            globals.EMPLOYEE_IDS[j] = me.emp
                THEN [me EXCEPT !.pc = "done", !.result = "true",
                                !.resp = BuilderResponse(200, "already_in_index")]
                ELSE [me EXCEPT !.pc = "add_query"]]
    /\ UNCHANGED <<Others, FP_FORCE_BASIC, globals, stamp, started, budget>>

\* Lines 526-617: query the employee's row and load its template.
AddQuery(t) ==
    /\ th[t].pc = "add_query"
    /\ \E dbFails \in BOOLEAN :
         LET me == th[t]
             loaded == IF dbFails THEN <<>> ELSE AddLoaded(db[me.emp], me.emp)
         IN  th' = [th EXCEPT ![t] =
                IF Len(loaded) = 0
                THEN [me EXCEPT !.pc = "done", !.result = "false",
                                !.resp = BuilderResponse(404, "failed_to_sync")]
                ELSE [me EXCEPT !.pc = "add_read_vec", !.loaded = loaded]]
    /\ UNCHANGED <<Others, FP_FORCE_BASIC, globals, stamp, started, budget>>

\* Lines 620-623: np.vstack reads EMPLOYEE_VECTORS ...
AddReadVectors(t) ==
    /\ th[t].pc = "add_read_vec"
    /\ th' = [th EXCEPT ![t].snap = globals.EMPLOYEE_VECTORS, ![t].pc = "add_w_vec"]
    /\ UNCHANGED <<Others, FP_FORCE_BASIC, globals, stamp, started, budget>>

\* ... and the result is assigned back.
AddWriteVectors(t) ==
    /\ th[t].pc = "add_w_vec"
    /\ globals' = [globals EXCEPT !.EMPLOYEE_VECTORS =
                      Array(Append(th[t].snap.rows, th[t].emp))]
    /\ stamp' = [stamp EXCEPT !.EMPLOYEE_VECTORS = th[t].call]
    /\ th' = [th EXCEPT ![t].pc = "add_tmpl"]
    /\ UNCHANGED <<Others, FP_FORCE_BASIC, started, budget>>

\* Lines 625-630.
AddAppendTemplate(t) ==
    /\ th[t].pc = "add_tmpl"
    /\ globals' = [globals EXCEPT !.EMPLOYEE_TEMPLATES = Append(@, th[t].loaded[1])]
    /\ stamp' = [stamp EXCEPT !.EMPLOYEE_TEMPLATES = th[t].call]
    /\ th' = [th EXCEPT ![t].pc = "add_ids"]
    /\ UNCHANGED <<Others, FP_FORCE_BASIC, started, budget>>

\* add_employee_to_index without lines 632-634: the id is not appended.
AddAppendIdSkipped(t) ==
    /\ th[t].pc = "add_ids"
    /\ th' = [th EXCEPT ![t].pc = "add_faiss"]
    /\ UNCHANGED <<unit, db, PSYCOPG2_AVAILABLE, FAISS_AVAILABLE, configured_force_basic,
                   FP_FORCE_BASIC, globals, stamp, started, budget>>

\* Lines 632-634.
AddAppendId(t) ==
    /\ th[t].pc = "add_ids"
    /\ globals' = [globals EXCEPT !.EMPLOYEE_IDS = Append(@, th[t].emp)]
    /\ stamp' = [stamp EXCEPT !.EMPLOYEE_IDS = th[t].call]
    /\ th' = [th EXCEPT ![t].pc = "add_faiss"]
    /\ UNCHANGED <<Others, FP_FORCE_BASIC, started, budget>>

\* Lines 636-641, and sync_employee's success body.
AddFaiss(t) ==
    /\ th[t].pc = "add_faiss"
    /\ IF FAISS_AVAILABLE /\ ~globals.FAISS_INDEX.none
       THEN /\ globals' = [globals EXCEPT !.FAISS_INDEX =
                              Array(Append(@.rows, th[t].emp))]
            /\ stamp' = [stamp EXCEPT !.FAISS_INDEX = th[t].call]
       ELSE UNCHANGED <<globals, stamp>>
    /\ th' = [th EXCEPT ![t].pc = "done", ![t].result = "true",
                        ![t].resp = BuilderResponse(200, "synced")]
    /\ UNCHANGED <<Others, FP_FORCE_BASIC, started, budget>>

\* ------------------------------------------------------------------------
\* identify_employee
\* ------------------------------------------------------------------------
StartIdentify(t, kp, owner, maxc) ==
    /\ started /\ Free(t) /\ budget.identify > 0
    /\ th' = [th EXCEPT ![t] = [Idle EXCEPT !.op = "identify", !.pc = "ensure",
                                            !.probe_kp = kp, !.owner = owner,
                                            !.k = IF maxc = None THEN TOP_K_DEFAULT
                                                  ELSE maxc[1]]]
    /\ budget' = [budget EXCEPT !.identify = @ - 1]
    /\ UNCHANGED <<Others, FP_FORCE_BASIC, globals, stamp, started>>

\* Lines 1971 and 502-506: an index that is not ready is rebuilt first.
EnsureReady(t) ==
    /\ th[t].pc = "ensure"
    /\ IF globals.EMPLOYEE_INDEX_READY
       THEN /\ th' = [th EXCEPT ![t].pc = "chk_vec"]
            /\ UNCHANGED budget
       ELSE /\ budget.builds > 0
            /\ th' = [th EXCEPT ![t].pc = "rb_scan", ![t].call = NextCall,
                                ![t].pre = globals]
            /\ budget' = [budget EXCEPT !.builds = @ - 1]
    /\ UNCHANGED <<Others, FP_FORCE_BASIC, globals, stamp, started>>

\* Lines 1974-1975.
CheckVectors(t) ==
    /\ th[t].pc = "chk_vec"
    /\ th' = [th EXCEPT ![t] =
                IF globals.EMPLOYEE_VECTORS.none \/ Len(globals.EMPLOYEE_VECTORS.rows) = 0
                THEN [@ EXCEPT !.pc = "done", !.resp = ErrorResponse("no_templates_in_index")]
                ELSE [@ EXCEPT !.pc = "save_flag"]]
    /\ UNCHANGED <<Others, FP_FORCE_BASIC, globals, stamp, started, budget>>

\* Line 1981.
SaveFlag(t) ==
    /\ th[t].pc = "save_flag"
    /\ th' = [th EXCEPT ![t].original_force_basic = FP_FORCE_BASIC,
                        ![t].pc = "set_flag"]
    /\ UNCHANGED <<Others, FP_FORCE_BASIC, globals, stamp, started, budget>>

\* Line 1984.
SetFlag(t) ==
    /\ th[t].pc = "set_flag"
    /\ FP_FORCE_BASIC' = FALSE
    /\ th' = [th EXCEPT ![t].pc = "enhance"]
    /\ UNCHANGED <<Others, globals, stamp, started, budget>>

\* Line 1985 -> prepare_features -> enhance_fingerprint_professional, which
\* reads the flag at line 723.
Enhance(t) ==
    /\ th[t].pc = "enhance"
    /\ th' = [th EXCEPT ![t].enhanced_with_basic = <<FP_FORCE_BASIC>>,
                        ![t].pc = "restore"]
    /\ UNCHANGED <<Others, FP_FORCE_BASIC, globals, stamp, started, budget>>

\* identify_employee without the quality return of lines 2001-2009.
RestoreFlagNoQualityReturn(t) ==
    /\ th[t].pc = "restore"
    /\ FP_FORCE_BASIC' = th[t].original_force_basic
    /\ LET me == th[t]
           probe == ProbeFeatures(me.probe_kp)
       IN  th' = [th EXCEPT ![t] =
                IF ~probe.success
                THEN [me EXCEPT !.pc = "done",
                                !.resp = EarlyResponse(probe.error, me.probe_kp)]
                ELSE [me EXCEPT !.pc = "topk_rows"]]
    /\ UNCHANGED <<unit, db, PSYCOPG2_AVAILABLE, FAISS_AVAILABLE, configured_force_basic,
                   globals, stamp, started, budget>>

\* Lines 1986-2021: the flag is put back, then the probe's quality decides.
RestoreFlag(t) ==
    /\ th[t].pc = "restore"
    /\ FP_FORCE_BASIC' = th[t].original_force_basic
    /\ LET me == th[t]
           probe == ProbeFeatures(me.probe_kp)
       IN  th' = [th EXCEPT ![t] =
                IF ~probe.success
                THEN [me EXCEPT !.pc = "done",
                                !.resp = EarlyResponse(probe.error, me.probe_kp)]
                ELSE IF me.probe_kp < FP_MIN_KEYPOINTS_WARN
                THEN [me EXCEPT !.pc = "done",
                                !.resp = EarlyResponse("probe_low_quality", me.probe_kp)]
                ELSE [me EXCEPT !.pc = "topk_rows"]]
    /\ UNCHANGED <<Others, globals, stamp, started, budget>>

\* find_top_k_candidates, lines 657-659: k is cut to the rows of the matrix.
TopKRows(t) ==
    /\ th[t].pc = "topk_rows"
    /\ LET me == th[t]
           v == globals.EMPLOYEE_VECTORS
       IN  th' = [th EXCEPT ![t] =
                IF v.none \/ Len(v.rows) = 0
                THEN [me EXCEPT !.pc = "done", !.nn_queried = TRUE,
                                !.resp = EarlyResponse("no_candidates_found", me.probe_kp)]
                ELSE [me EXCEPT !.pc = "topk_search", !.nn_queried = TRUE,
                                !.k = Min(me.k, Len(v.rows)),
                                !.reads = @ \cup {stamp.EMPLOYEE_VECTORS}]]
    /\ UNCHANGED <<Others, FP_FORCE_BASIC, globals, stamp, started, budget>>

\* The embeddings of the model: a probe lies nearest to the rows of its
\* owner, and the other rows follow in index order.  Ranked(rows, owner) is
\* the positions of `rows` from the nearest on.
RECURSIVE PositionsWhere(_, _, _, _)
PositionsWhere(rows, owner, own, i) ==
    IF i > Len(rows) THEN <<>>
    ELSE (IF (rows[i] = owner) = own THEN <<i>> ELSE <<>>)
         \o PositionsWhere(rows, owner, own, i + 1)

Ranked(rows, owner) ==
    PositionsWhere(rows, owner, TRUE, 1) \o PositionsWhere(rows, owner, FALSE, 1)

\* find_top_k_candidates, lines 661-673: the accelerator if there is one,
\* else the matrix as it is now; the k nearest positions.
TopKSearch(t) ==
    /\ th[t].pc = "topk_search"
    /\ LET me == th[t]
           useFaiss == ~globals.FAISS_INDEX.none /\ FAISS_AVAILABLE
           src == IF useFaiss THEN globals.FAISS_INDEX ELSE globals.EMPLOYEE_VECTORS
           srcStamp == IF useFaiss THEN stamp.FAISS_INDEX ELSE stamp.EMPLOYEE_VECTORS
           m == Min(me.k, Len(src.rows))
           s == SubSeq(Ranked(src.rows, me.owner), 1, m)
       IN  th' = [th EXCEPT ![t] =
                IF src.none
                THEN [me EXCEPT !.pc = "done", !.resp = ErrorResponse("TypeError")]
                ELSE IF m = 0
                THEN [me EXCEPT !.pc = "done",
                                !.resp = EarlyResponse("no_candidates_found",
                                                       me.probe_kp)]
                ELSE [me EXCEPT !.pc = "match", !.shortlist = s, !.i = 1,
                                !.shortlisted = {src.rows[s[j]] : j \in 1..m},
                                !.reads = @ \cup {srcStamp}]]
    /\ UNCHANGED <<Others, FP_FORCE_BASIC, globals, stamp, started, budget>>

\* Lines 2046-2097, one iteration: EMPLOYEE_TEMPLATES[idx] is read and the
\* probe matched against its templates.  A position past the end of the list
\* raises IndexError, a record without template_features_list KeyError.
MatchCandidate(t) ==
    /\ th[t].pc = "match"
    /\ LET me == th[t]
           idx == me.shortlist[me.i]
           recs == globals.EMPLOYEE_TEMPLATES
       IN  th' = [th EXCEPT ![t] =
                IF idx > Len(recs)
                THEN [me EXCEPT !.pc = "done", !.resp = ErrorResponse("IndexError"),
                                !.reads = @ \cup {stamp.EMPLOYEE_TEMPLATES}]
                ELSE IF recs[idx].shape # "list"
                THEN [me EXCEPT !.pc = "done", !.resp = ErrorResponse("KeyError"),
                                !.reads = @ \cup {stamp.EMPLOYEE_TEMPLATES}]
                ELSE [me EXCEPT
                        !.cands = Append(@, EvalEmployee(recs[idx],
                                                ProbeFeatures(me.probe_kp),
                                                ProbeScores(me.owner, recs[idx]),
                                                None)),
                        !.matcher_calls = @ + Len(recs[idx].tkps),
                        !.reads = @ \cup {stamp.EMPLOYEE_TEMPLATES},
                        !.i = @ + 1,
                        !.pc = IF me.i = Len(me.shortlist) THEN "gate" ELSE "match"]]
    /\ UNCHANGED <<Others, FP_FORCE_BASIC, globals, stamp, started, budget>>

\* Lines 2099-2203: len(EMPLOYEE_IDS) is read and the response built.
Gate(t) ==
    /\ th[t].pc = "gate"
    /\ th' = [th EXCEPT ![t] =
                [@ EXCEPT !.pc = "done",
                          !.reads = @ \cup {stamp.EMPLOYEE_IDS},
                          !.resp = IdentifyDecision(th[t].cands,
                                                    Len(globals.EMPLOYEE_IDS),
                                                    th[t].probe_kp)]]
    /\ UNCHANGED <<Others, FP_FORCE_BASIC, globals, stamp, started, budget>>

\* ------------------------------------------------------------------------
\* The service: calls start on free threads and run a step at a time.
\* ------------------------------------------------------------------------
StartCallOn(t, kps, owners, maxcs) ==
    \/ StartReload(t)
    \/ \E e \in Employees : StartSync(t, e)
    \/ \E kp \in kps, owner \in owners, maxc \in maxcs :
           StartIdentify(t, kp, owner, maxc)

\* Concurrent clients: each worker thread of the pool serves one call, and
\* the threads being interchangeable, thread 1 is the first to be given one.
\* The probes of concurrent requests are good ones of employee 1, with the
\* default max_candidates.
StartCall ==
    \E t \in Threads :
        /\ th[t].pc = "idle"
        /\ \A u \in 1..(t - 1) : th[u].pc # "idle"
        /\ StartCallOn(t, {FP_MIN_KEYPOINTS}, {1}, {None})

Step ==
    \E t \in Threads :
        \/ RebuildScan(t) \/ RebuildWrite(t)
        \/ AddCheck(t) \/ AddQuery(t) \/ AddReadVectors(t) \/ AddWriteVectors(t)
        \/ AddAppendTemplate(t) \/ AddAppendId(t) \/ AddFaiss(t)
        \/ EnsureReady(t) \/ CheckVectors(t) \/ SaveFlag(t) \/ SetFlag(t)
        \/ Enhance(t) \/ RestoreFlag(t) \/ TopKRows(t) \/ TopKSearch(t)
        \/ MatchCandidate(t) \/ Gate(t)

StoreChange == \E e \in Employees : Enroll(e) \/ Deactivate(e)

\* Concurrent calls are studied on a service whose database driver is there
\* and whose startup build went through.
InitConcurrent == Init /\ PSYCOPG2_AVAILABLE

Next == StartupWith({FALSE}) \/ StoreChange \/ StartCall \/ Step

Spec == InitConcurrent /\ [][Next]_vars

\* The same service with one call at a time: every call runs on thread 1.
NextSeq == Startup \/ StoreChange \/ StartCallOn(1, ProbeKeypoints, Employees, MaxCandidatesChoices) \/ Step

SpecSeq == Init /\ [][NextSeq]_vars

\* ------------------------------------------------------------------------
\* The decision of identify_employee by itself: a shortlist of records, the
\* probe's score against each of their templates, and the number of
\* employees in the index are given; the loop of lines 2046-2097 and the
\* gates of lines 2099-2203 produce the response.
\* ------------------------------------------------------------------------
MaxShortlist == 3                  \* records in a shortlist
IndexSizes == {3, 4, 5, 10, 11}    \* len(EMPLOYEE_IDS)
OneTemplateScores == {30, 46, 49, 59, 60, 61, 64}
ManyTemplateScores == {10, 35, 36, 40, 60}
OverrideChoices == {None, Some(60)}

\* All sequences of length n over S.
RECURSIVE Tuples(_, _)
Tuples(S, n) ==
    IF n = 0 THEN {<<>>}
    ELSE {Append(s, x) : s \in Tuples(S, n - 1), x \in S}

\* Shortlists of 1..MaxShortlist employees with one template each.
OneTemplateInputs ==
    {[records |-> [i \in 1..Len(sc) |->
                      [employee_id |-> i, shape |-> "list", tkps |-> <<FP_MIN_KEYPOINTS>>]],
      scores |-> [i \in 1..Len(sc) |-> <<sc[i]>>],
      num_employees |-> n, probe_kp |-> FP_MIN_KEYPOINTS, threshold_override |-> o] :
        sc \in UNION {Tuples(OneTemplateScores, m) : m \in 1..MaxShortlist},
        n \in IndexSizes, o \in OverrideChoices}

\* Two employees, the first with three templates.
ManyTemplateInputs ==
    {[records |-> << [employee_id |-> 1, shape |-> "list",
                      tkps |-> <<FP_MIN_KEYPOINTS, FP_MIN_KEYPOINTS, FP_MIN_KEYPOINTS>>],
                     [employee_id |-> 2, shape |-> "list", tkps |-> <<FP_MIN_KEYPOINTS>>] >>,
      scores |-> <<sc, <<x>>>>,
      num_employees |-> 4, probe_kp |-> FP_MIN_KEYPOINTS, threshold_override |-> None] :
        sc \in Tuples(ManyTemplateScores, 3), x \in ManyTemplateScores}

\* Probes and templates at the quality limits.
QualityInputs ==
    {[records |-> << [employee_id |-> 1, shape |-> "list", tkps |-> <<tkp>>],
                     [employee_id |-> 2, shape |-> "list", tkps |-> <<FP_MIN_KEYPOINTS>>] >>,
      scores |-> << <<x>>, <<y>> >>,
      num_employees |-> 4, probe_kp |-> kp, threshold_override |-> None] :
        tkp \in {MIN_DESCRIPTORS - 1, FP_HIGH_CONF_KP},
        kp \in {FP_MIN_KEYPOINTS_WARN, FP_HIGH_CONF_KP},
        x \in {49, 60}, y \in {30, 49}}

IdentifyInputs == OneTemplateInputs \cup ManyTemplateInputs \cup QualityInputs

IndexUnused ==
    /\ db = [e \in Employees |-> RowAbsent]
    /\ PSYCOPG2_AVAILABLE = TRUE /\ FAISS_AVAILABLE = FALSE
    /\ configured_force_basic = FALSE /\ FP_FORCE_BASIC = FALSE
    /\ globals = EmptyGlobals
    /\ stamp = [EMPLOYEE_VECTORS |-> 0, EMPLOYEE_TEMPLATES |-> 0, EMPLOYEE_IDS |-> 0,
                EMPLOYEE_INDEX_READY |-> 0, FAISS_INDEX |-> 0]
    /\ started = FALSE
    /\ th = [t \in Threads |-> Idle]
    /\ budget = [builds |-> 0, identify |-> 0, dbchanges |-> 0]

IndexVars == <<db, PSYCOPG2_AVAILABLE, FAISS_AVAILABLE, configured_force_basic,
               FP_FORCE_BASIC, globals, stamp, started, th, budget>>

InitIdentify ==
    /\ IndexUnused
    /\ \E in \in IdentifyInputs :
         unit = [fn |-> "identify", phase |-> "given", in |-> in,
                 cands |-> <<>>, resp |-> ErrorResponse("none")]

\* Lines 2046-2097: every shortlisted record is evaluated.
EvaluateShortlist ==
    /\ unit.fn = "identify" /\ unit.phase = "given"
    /\ unit' = [unit EXCEPT
                  !.phase = "evaluated",
                  !.cands = [i \in 1..Len(unit.in.records) |->
                                EvalEmployee(unit.in.records[i],
                                             ProbeFeatures(unit.in.probe_kp),
                                             unit.in.scores[i],
                                             unit.in.threshold_override)]]
    /\ UNCHANGED IndexVars

\* Lines 2099-2203.
DecideIdentify ==
    /\ unit.fn = "identify" /\ unit.phase = "evaluated"
    /\ unit' = [unit EXCEPT
                  !.phase = "decided",
                  !.resp = IdentifyDecision(unit.cands, unit.in.num_employees,
                                            unit.in.probe_kp)]
    /\ UNCHANGED IndexVars

NextIdentify == EvaluateShortlist \/ DecideIdentify

SpecIdentify == InitIdentify /\ [][NextIdentify]_vars

\* ------------------------------------------------------------------------
\* match_templates as a process: the request thread submits one future per
\* template to the pool, collects them as they complete, may leave the
\* collection early, and answers.  A future is "queued" (cancellable),
\* "running", "finished", "failed" (the pool broke under it) or "cancelled".
\* ------------------------------------------------------------------------
MaxTemplates == 3
MaxKeypoints == 1000               \* keypoints of the richest feature set
PrecomputedScores == {40, 43, 52, 65, 75}
ImageScores == {50, 75}

TemplateChoices ==
    {[kind |-> "empty", kp |-> 0, score |-> 0],
     [kind |-> "undeserializable", kp |-> 0, score |-> 0],
     [kind |-> "undecodable", kp |-> 0, score |-> 0],
     [kind |-> "precomputed", kp |-> MIN_DESCRIPTORS - 1, score |-> 0]}
    \cup {[kind |-> "precomputed", kp |-> FP_MIN_KEYPOINTS, score |-> x] :
            x \in PrecomputedScores}
    \cup {[kind |-> "image", kp |-> FP_MIN_KEYPOINTS, score |-> x] : x \in ImageScores}

\* The templates of requests with three templates or more.
ManyTemplateChoices ==
    {[kind |-> "empty", kp |-> 0, score |-> 0],
     [kind |-> "undeserializable", kp |-> 0, score |-> 0],
     [kind |-> "image", kp |-> FP_MIN_KEYPOINTS, score |-> 75]}
    \cup {[kind |-> "precomputed", kp |-> FP_MIN_KEYPOINTS, score |-> x] : x \in {40, 52, 75}}

\* Templates of MaxKeypoints keypoints, for a probe of as many: the
\* threshold is above FP_MIN_BASE.
RichTemplateChoices ==
    {[kind |-> "precomputed", kp |-> MaxKeypoints, score |-> x] : x \in {46, 47, 75}}

VerifyInputs ==
    {[templates |-> ts, probe_kp |-> FP_MIN_KEYPOINTS, threshold_override |-> None] :
        ts \in UNION ({Tuples(TemplateChoices, m) : m \in 0..2}
                      \cup {Tuples(ManyTemplateChoices, m) : m \in 3..MaxTemplates})}
    \cup {[templates |-> <<t>>, probe_kp |-> kp, threshold_override |-> None] :
            t \in TemplateChoices, kp \in {MIN_DESCRIPTORS - 1, FP_MIN_KEYPOINTS_WARN - 1}}
    \cup {[templates |-> <<t1, t2>>, probe_kp |-> MaxKeypoints,
            threshold_override |-> None] : t1 \in RichTemplateChoices,
                                           t2 \in RichTemplateChoices}

InitVerify ==
    /\ IndexUnused
    /\ \E in \in VerifyInputs :
         unit = [fn |-> "match_templates", phase |-> "received", in |-> in,
                 status |-> [i \in 1..Len(in.templates) |-> "queued"],
                 future |-> [i \in 1..Len(in.templates) |->
                                PlaceholderPayload(in.probe_kp, "pending")],
                 collected |-> {},      \* keys of template_results_dict
                 first |-> 0,           \* the future that completed first
                 high_confidence_match_found |-> FALSE,
                 resp |-> VerifyEarlyResponse(0, "none", 0)]

Verifying(phases) == unit.fn = "match_templates" /\ unit.phase \in phases

TemplateIndices == 1..Len(unit.in.templates)

\* What the request thread gets from completed future i: its result, or
\* the payload made up for its exception (lines 1765-1773).
FutureResult(i) ==
    IF unit.status[i] = "failed"
    THEN PlaceholderPayload(unit.in.probe_kp, "future_error")
    ELSE unit.future[i]

Collected(i) == i \in unit.collected

\* Lines 1657-1720: the request is checked, the probe processed and the
\* futures submitted.
ReceiveVerify ==
    /\ Verifying({"received"})
    /\ LET probe == ProbeFeatures(unit.in.probe_kp)
       IN  unit' =
             IF Len(unit.in.templates) = 0
             THEN [unit EXCEPT !.phase = "decided",
                               !.resp = VerifyEarlyResponse(400, "no_templates", 0)]
             ELSE IF ~probe.success
             THEN [unit EXCEPT !.phase = "decided",
                               !.resp = VerifyEarlyResponse(200, probe.error,
                                                            unit.in.probe_kp)]
             ELSE IF unit.in.probe_kp < FP_MIN_KEYPOINTS_WARN
             THEN [unit EXCEPT !.phase = "decided",
                               !.resp = VerifyEarlyResponse(200, "probe_low_quality",
                                                            unit.in.probe_kp)]
             ELSE [unit EXCEPT !.phase = "collecting"]
    /\ UNCHANGED IndexVars

\* The pool hands a queued future to a worker process.
WorkerStart(i) ==
    /\ Verifying({"collecting"})
    /\ i \in TemplateIndices
    /\ unit.status[i] = "queued"
    /\ Cardinality({j \in TemplateIndices : unit.status[j] = "running"}) < MAX_WORKERS
    /\ unit' = [unit EXCEPT !.status[i] = "running"]
    /\ UNCHANGED IndexVars

\* The worker returns; the executor's shutdown waits for it when the
\* collection was left early.
WorkerFinish(i) ==
    /\ Verifying({"collecting", "shutdown"})
    /\ i \in TemplateIndices
    /\ unit.status[i] = "running"
    /\ unit' = [unit EXCEPT
                  !.status[i] = "finished",
                  !.future[i] = ProcessSingleTemplate(unit.in.templates[i],
                                                      unit.in.probe_kp,
                                                      unit.in.threshold_override)]
    /\ UNCHANGED IndexVars

\* A worker process dies: the pool is broken and every future that has not
\* completed raises.
PoolBreaks ==
    /\ Verifying({"collecting", "shutdown"})
    /\ \E i \in TemplateIndices : unit.status[i] = "running"
    /\ unit' = [unit EXCEPT !.status =
                  [i \in TemplateIndices |->
                      IF unit.status[i] \in {"queued", "running"} THEN "failed"
                      ELSE unit.status[i]]]
    /\ UNCHANGED IndexVars

\* Lines 1724-1773, one round of the as_completed loop: a completed future
\* is taken; a high-confidence accepted result of a request with three
\* templates or more cancels what is still queued and leaves the loop.
Collect(i) ==
    /\ Verifying({"collecting"})
    /\ i \in TemplateIndices
    /\ unit.status[i] \in {"finished", "failed"}
    /\ ~Collected(i)
    /\ LET result == FutureResult(i)
           exit == unit.status[i] = "finished"
                   /\ EarlyExitTriggered(result, Len(unit.in.templates))
       IN  unit' = [unit EXCEPT
                      !.collected = @ \cup {i},
                      !.first = IF @ = 0 THEN i ELSE @,
                      !.high_confidence_match_found = exit,
                      !.phase = IF exit THEN "shutdown" ELSE "collecting",
                      !.status = IF exit
                                 THEN [j \in TemplateIndices |->
                                          IF unit.status[j] = "queued" THEN "cancelled"
                                          ELSE unit.status[j]]
                                 ELSE @]
    /\ UNCHANGED IndexVars

\* Lines 1702-1706 and 1717-1720: enumerate gives every template its index,
\* the worker gets it as args[0] and returns it with its result, and
\* future_to_idx keeps it for the futures that raise.
template_args ==
    [i \in TemplateIndices |-> [idx |-> i, template |-> unit.in.templates[i]]]

future_to_idx == [f \in TemplateIndices |-> template_args[f].idx]

\* The key under which the result of completed future f is stored: the idx
\* the worker returned (line 1726), or future_to_idx's (line 1766).
FutureIndex(f) ==
    IF unit.status[f] = "failed" THEN future_to_idx[f] ELSE template_args[f].idx

\* A payload with its "template_index" key.
WithTemplateIndex(payload, idx) == ("template_index" :> idx) @@ payload

\* Lines 1742 and 1773: template_results_dict when the loop is over.
template_results_dict ==
    [k \in {FutureIndex(f) : f \in unit.collected} |->
        LET f == CHOOSE g \in unit.collected : FutureIndex(g) = k
        IN  WithTemplateIndex(FutureResult(f), k)]

\* Lines 1776-1784: every index of the request that has no result gets a
\* cancelled_early_exit payload.
FilledResultsDict ==
    [k \in DOMAIN template_results_dict \cup TemplateIndices |->
        IF k \in DOMAIN template_results_dict THEN template_results_dict[k]
        ELSE WithTemplateIndex(
                PlaceholderPayload(unit.in.probe_kp, "cancelled_early_exit"), k)]

\* The results listed with the first collected one in front.
TemplateResultsFirstCollectedInFront ==
    LET d == FilledResultsDict
        rest == DOMAIN d \ {unit.first}
    IN  IF unit.first = 0
        THEN [p \in 1..Cardinality(DOMAIN d) |->
                d[CHOOSE k \in DOMAIN d : Cardinality({j \in DOMAIN d : j < k}) = p - 1]]
        ELSE [p \in 1..Cardinality(DOMAIN d) |->
                IF p = 1 THEN d[unit.first]
                ELSE d[CHOOSE k \in rest : Cardinality({j \in rest : j < k}) = p - 2]]

\* Lines 1794-1797: the results in the order of their keys.
TemplateResultsDict ==
    LET d == FilledResultsDict
    IN  [p \in 1..Cardinality(DOMAIN d) |->
            d[CHOOSE k \in DOMAIN d : Cardinality({j \in DOMAIN d : j < k}) = p - 1]]

\* Lines 1776-1947: once the loop is over and the executor has shut down,
\* the missing results are filled in and the verdict is given.
RespondVerify ==
    /\ \/ Verifying({"collecting"}) /\ \A i \in TemplateIndices : Collected(i)
       \/ Verifying({"shutdown"}) /\ \A i \in TemplateIndices : unit.status[i] # "running"
    /\ unit' = [unit EXCEPT
                  !.phase = "decided",
                  !.resp = VerifyResponse(TemplateResultsDict, unit.in.probe_kp,
                                          unit.high_confidence_match_found)]
    /\ UNCHANGED IndexVars

NextVerify ==
    \/ ReceiveVerify
    \/ \E i \in 1..MaxTemplates : WorkerStart(i)
    \/ \E i \in 1..MaxTemplates : WorkerFinish(i)
    \/ \E i \in 1..MaxTemplates : Collect(i)
    \/ PoolBreaks
    \/ RespondVerify

SpecVerify == InitVerify /\ [][NextVerify]_vars

\* ------------------------------------------------------------------------
\* Properties of the index and of the identification request
\* ------------------------------------------------------------------------
Rows(a) == IF a.none THEN 0 ELSE Len(a.rows)

IdentifyDone(t) == th[t].op = "identify" /\ th[t].pc = "done"

\* The request got as far as extracting the features of its probe.
ProbeExtracted(t) == IdentifyDone(t) /\ th[t].enhanced_with_basic # <<>>

\* C1 (Spec): under every interleaving with a rebuild or an add, an identify
\* request reads the matrix, the accelerator, the record list and the id
\* list from one version of the index: all it read was written by the same
\* builder call.
C1_ReadsOneIndexVersion ==
    \A t \in Threads : IdentifyDone(t) => Cardinality(th[t].reads) <= 1

\* The relation the index globals are to keep.
IndexConsistent(g) ==
    /\ Rows(g.EMPLOYEE_VECTORS) = Len(g.EMPLOYEE_TEMPLATES)
    /\ Len(g.EMPLOYEE_TEMPLATES) = Len(g.EMPLOYEE_IDS)
    /\ \A i \in 1..Len(g.EMPLOYEE_TEMPLATES) :
          i <= Len(g.EMPLOYEE_IDS)
          /\ g.EMPLOYEE_TEMPLATES[i].employee_id = g.EMPLOYEE_IDS[i]
    /\ ~g.FAISS_INDEX.none => Rows(g.FAISS_INDEX) = Len(g.EMPLOYEE_IDS)

\* C2 (SpecSeq): after every completed startup build, reload_index or
\* sync_employee call, successful or failed, in any sequence, the matrix,
\* the record list and the id list have the same length, record i carries
\* EMPLOYEE_IDS[i], and the accelerator, when present, has as many rows.
C2_IndexConsistentAfterCalls ==
    (started /\ Quiet) => IndexConsistent(globals)

\* A sync has just added a third employee to an index of two.
C2_Witness ==
    /\ th[1].op = "sync" /\ th[1].pc = "done" /\ th[1].result = "true"
    /\ th[1].resp.decision_reason = "synced"
    /\ Len(globals.EMPLOYEE_IDS) = 3
    /\ ~globals.FAISS_INDEX.none

\* C3 (SpecSeq): a rebuild that fails because the store cannot be reached
\* or queried reports failure and leaves vectors, records, ids, accelerator
\* and ready flag exactly as they were on entry.
C3_FailedRebuildKeepsIndex ==
    \A t \in Threads :
        (th[t].op = "reload" /\ th[t].pc = "done" /\ th[t].rb.kind = "error")
        => (th[t].result = "false" /\ globals = th[t].pre)

\* The employees whose record was appended by add_employee_to_index.
SyncedEmployees(g) ==
    {g.EMPLOYEE_TEMPLATES[i].employee_id :
        i \in {j \in 1..Len(g.EMPLOYEE_TEMPLATES) :
                  g.EMPLOYEE_TEMPLATES[j].shape = "single"}}

CandidateIds(resp) == {resp.candidates[i].employee_id : i \in 1..Len(resp.candidates)}

\* C4 (SpecSeq): once sync_employee(e) has added e to a built index, a
\* following identify request whose shortlist contains e completes with a
\* normal response that lists e among its candidates.
C4_SyncedEmployeeIsCandidate ==
    \A t \in Threads :
        IdentifyDone(t) =>
            \A e \in th[t].shortlisted \cap SyncedEmployees(globals) :
                th[t].resp.status = 200 /\ e \in CandidateIds(th[t].resp)

\* C5 (Spec): whatever FP_FORCE_BASIC is configured to and however
\* concurrent identify requests interleave, the flag a request observes
\* while its probe is enhanced is false.
C5_EnhancedOnProfessionalPath ==
    \A t \in Threads : th[t].enhanced_with_basic # <<TRUE>>

\* C9 as stated (SpecSeq): every identify request whose probe has fewer
\* than FP_MIN_KEYPOINTS_WARN keypoints answers matched=false with reason
\* probe_low_quality, with no nearest-neighbour query and no Matcher call.
C9_LowQualityAlwaysProbeLowQuality ==
    \A t \in Threads :
        (ProbeExtracted(t) /\ th[t].probe_kp < FP_MIN_KEYPOINTS_WARN)
        => /\ ~th[t].resp.matched
           /\ th[t].resp.decision_reason = "probe_low_quality"
           /\ ~th[t].nn_queried /\ th[t].matcher_calls = 0

\* C9 (SpecSeq): an identify request whose probe is extracted with fewer
\* than FP_MIN_KEYPOINTS_WARN keypoints answers matched=false without
\* any nearest-neighbour query or Matcher call; its reason is
\* probe_low_quality when the extraction succeeded (10 keypoints or more)
\* and the extractor's insufficient_features otherwise.
C9_LowQualityRejectedEarly ==
    \A t \in Threads :
        (ProbeExtracted(t) /\ th[t].probe_kp < FP_MIN_KEYPOINTS_WARN)
        => /\ th[t].resp.status = 200
           /\ ~th[t].resp.matched
           /\ th[t].resp.employee_id = 0
           /\ th[t].resp.decision_reason =
                 (IF th[t].probe_kp >= MIN_DESCRIPTORS THEN "probe_low_quality"
                  ELSE "insufficient_features")
           /\ ~th[t].nn_queried /\ th[t].matcher_calls = 0

\* A probe of 100 keypoints was turned down on a populated, ready index.
C9_Witness ==
    /\ IdentifyDone(1) /\ th[1].probe_kp = 100
    /\ th[1].resp.decision_reason = "probe_low_quality"
    /\ globals.EMPLOYEE_INDEX_READY /\ Len(globals.EMPLOYEE_IDS) >= 2

\* ------------------------------------------------------------------------
\* Properties of the decision of identify_employee (SpecIdentify)
\* ------------------------------------------------------------------------
Decided == unit.fn = "identify" /\ unit.phase = "decided"

\* The strict Matcher's results for the templates of shortlisted record i.
StrictResults(i) ==
    [j \in 1..Len(unit.in.records[i].tkps) |->
        match_feature_sets(ProbeFeatures(unit.in.probe_kp),
                           TemplateFeatures(unit.in.records[i].tkps[j]),
                           unit.in.scores[i][j], unit.in.threshold_override, TRUE)]

\* The strict Matcher accepted the probe against a highest-scoring template
\* of shortlisted record i.
StrictAcceptsTopTemplate(i) ==
    LET r == StrictResults(i)
        top == SeqMax([j \in 1..Len(r) |-> r[j].score])
    IN  \E j \in 1..Len(r) : r[j].score = top /\ r[j].accepted

\* C6 (SpecIdentify): matched=true for employee e only if the strict-mode
\* Matcher accepted the probe against e's highest-scoring template; being
\* shortlisted is never enough.
C6_MatchedOnlyIfMatcherAccepted ==
    (Decided /\ unit.resp.matched) =>
        \E i \in 1..Len(unit.in.records) :
            /\ unit.in.records[i].employee_id = unit.resp.employee_id
            /\ StrictAcceptsTopTemplate(i)

\* A match among several shortlisted employees, one of them rejected.
C6_Witness ==
    /\ Decided /\ unit.resp.matched /\ Len(unit.in.records) = 3
    /\ \E i \in 1..3 : ~StrictAcceptsTopTemplate(i)

\* The scores of the probe against the templates of employee e, as the
\* ratio test gave them.
ScoresOfEmployee(e) ==
    LET i == CHOOSE i \in 1..Len(unit.in.records) : unit.in.records[i].employee_id = e
    IN  unit.in.scores[i]

\* C23 (SpecIdentify): whenever identify_employee returns matched=true,
\* best_score >= FP_ABS_MIN_SCORE (45), and if the matched employee has 3
\* templates or more, at least 2 of its per-template scores are >= 0.6 *
\* best_score.
C23_MatchedIsConsistent ==
    (Decided /\ unit.resp.matched) =>
        LET scores == ScoresOfEmployee(unit.resp.employee_id)
        IN  /\ unit.resp.best_score >= FP_ABS_MIN_SCORE
            /\ unit.resp.best_score = SeqMax(scores)
            /\ Len(scores) >= 3 =>
                  Cardinality({j \in 1..Len(scores) :
                                  10 * scores[j] >= 6 * unit.resp.best_score}) >= 2

\* A match of an employee with three templates: the best scores 60, a
\* second one exactly 0.6 of it, the third below.
C23_Witness ==
    /\ Decided /\ unit.resp.matched /\ unit.resp.best_score = 60
    /\ LET scores == ScoresOfEmployee(unit.resp.employee_id)
       IN  /\ Len(scores) = 3
           /\ \E j \in 1..3 : scores[j] = 36
           /\ \E j \in 1..3 : scores[j] = 35

\* The margin the winner must hold, by the size of the index.
RequiredMargin(n) == IF n <= 4 THEN 10 ELSE IF n <= 10 THEN 12 ELSE 15

\* C7 (SpecIdentify): whenever matched=true, best_score minus the score of
\* every other shortlisted employee is at least 10 for an index of at most
\* 4 employees, 12 for at most 10, 15 beyond.
C7_MatchedHoldsMargin ==
    (Decided /\ unit.resp.matched) =>
        \A i \in 1..Len(unit.cands) :
            unit.cands[i].employee_id # unit.resp.employee_id =>
                unit.resp.best_score - unit.cands[i].score
                    >= RequiredMargin(unit.in.num_employees)

\* A match in an index of 11 employees, won by exactly 15.
C7_Witness ==
    /\ Decided /\ unit.resp.matched /\ unit.in.num_employees = 11
    /\ \E i \in 1..Len(unit.cands) :
          /\ unit.cands[i].employee_id # unit.resp.employee_id
          /\ unit.resp.best_score - unit.cands[i].score = 15

\* Two or more employees were shortlisted and all got the same score.
AllScoredAlike ==
    /\ Decided /\ Len(unit.cands) >= 2
    /\ \A i, j \in 1..Len(unit.cands) : unit.cands[i].score = unit.cands[j].score

\* C8 as stated (SpecIdentify): when every shortlisted employee, two or
\* more, has the same score, the response is matched=false with a reason of
\* the ambiguous_match_margin family.
C8_AlikeIsAlwaysAmbiguous ==
    AllScoredAlike =>
        (~unit.resp.matched /\ unit.resp.decision_reason = "ambiguous_match_margin")

\* The selected candidate when all scores are alike: the first accepted one,
\* or the first one when the Matcher accepted none.
AlikeWinner ==
    IF \E i \in 1..Len(unit.cands) : unit.cands[i].accepted
    THEN CHOOSE i \in 1..Len(unit.cands) :
            unit.cands[i].accepted /\ \A j \in 1..(i - 1) : ~unit.cands[j].accepted
    ELSE 1

\* C8 (SpecIdentify): when every shortlisted employee, two or more, has the
\* same score, the response is matched=false.  Its reason is the Matcher's
\* rejection reason when the Matcher did not accept the selected candidate;
\* otherwise inconsistent_templates when that candidate has three templates
\* or more and fewer than two of them reach 60% of its score, and
\* ambiguous_match_margin in every other case.
C8_AlikeIsNeverMatched ==
    AllScoredAlike =>
        LET w == unit.cands[AlikeWinner]
            few == Len(w.all_template_scores) >= 3
                   /\ Cardinality({k \in 1..Len(w.all_template_scores) :
                                      10 * w.all_template_scores[k] >= 6 * w.score}) < 2
        IN  /\ ~unit.resp.matched
            /\ unit.resp.employee_id = 0
            /\ unit.resp.decision_reason =
                  (IF ~w.accepted THEN w.reason
                   ELSE IF few THEN "inconsistent_templates"
                   ELSE "ambiguous_match_margin")
            /\ ~w.accepted => w.reason \in {"score_below_abs_min", "score_below_threshold",
                                            "insufficient_margin", "insufficient_descriptors"}

\* Three employees, every one accepted by the Matcher with the same score.
C8_Witness ==
    /\ AllScoredAlike /\ Len(unit.cands) = 3
    /\ \A i \in 1..3 : unit.cands[i].accepted
    /\ unit.resp.decision_reason = "ambiguous_match_margin"

\* ------------------------------------------------------------------------
\* Properties of match_templates (SpecVerify)
\* ------------------------------------------------------------------------
TwoTemplates == unit.fn = "match_templates" /\ Len(unit.in.templates) = 2

VerifyAnswered ==
    /\ unit.fn = "match_templates" /\ unit.phase = "decided"
    /\ Len(unit.resp.template_results) > 0

\* The reasons of a result that stands for a template the Matcher never
\* scored: cancelled, empty, not loadable, or lost with its worker.
UnevaluatedReasons ==
    {"cancelled_early_exit", "empty_template", "decode_failed",
     "deserialization_failed", "insufficient_features", "enhancement_failed",
     "future_error"}

\* The Matcher accepted the best template and scored no other one.
LoneAcceptedBest ==
    /\ VerifyAnswered /\ Len(unit.in.templates) >= 2
    /\ LET b == unit.resp.best_template_index
       IN  /\ TemplateResultsDict[b].accepted
           /\ \A i \in TemplateIndices \ {b} :
                 TemplateResultsDict[i].reason \in UnevaluatedReasons

\* C11 (SpecVerify): with two templates or more, when the Matcher accepted
\* the best template and no other template was evaluated (cancelled, empty
\* or not loadable), the answer is accepted=false with decision_reason
\* secondary_template_required.
C11_LoneAcceptedBestIsRejected ==
    LoneAcceptedBest =>
        /\ ~unit.resp.accepted
        /\ unit.resp.decision_reason = "secondary_template_required"

\* The results the verdict was given on, in template order.
AnsweredResults == TemplateResultsDict

\* The templates of the answered request that count as evaluated.
EvaluatedTemplates == NonEmptyTemplates(AnsweredResults)

\* Exactly one template was accepted, with a score of 70 or more, and every
\* other template scored below 45.
OneVeryStrongAmongWeak ==
    /\ VerifyAnswered
    /\ Cardinality(EvaluatedTemplates) >= 2
    /\ \E b \in TemplateIndices :
          /\ AnsweredResults[b].accepted /\ AnsweredResults[b].score >= 70
          /\ \A i \in TemplateIndices \ {b} :
                ~AnsweredResults[i].accepted /\ AnsweredResults[i].score < 45

\* C12 (SpecVerify): with two evaluated templates or more, when exactly one
\* template is accepted with a score of 70 or more and the highest score of
\* the others is below 45, the answer is accepted=false with decision_reason
\* secondary_template_disagrees.
C12_VeryStrongNeedsSecondary ==
    OneVeryStrongAmongWeak =>
        /\ ~unit.resp.accepted
        /\ unit.resp.decision_reason = "secondary_template_disagrees"

\* Two templates were both collected: one accepted with 75, the other
\* scored 40 and was turned down by the Matcher.
C12_Witness ==
    /\ OneVeryStrongAmongWeak /\ Len(unit.in.templates) = 2
    /\ unit.collected = {1, 2}
    /\ \E i \in 1..2 : AnsweredResults[i].score = 40
                       /\ AnsweredResults[i].reason = "insufficient_margin"
    /\ unit.resp.decision_reason = "secondary_template_disagrees"

\* The request was answered on two evaluated templates or more, the best
\* of them accepted by the Matcher.
AcceptedBestAmongSeveral ==
    /\ VerifyAnswered
    /\ Cardinality(EvaluatedTemplates) >= 2
    /\ unit.resp.best_template_index \in EvaluatedTemplates
    /\ AnsweredResults[unit.resp.best_template_index].accepted

\* The highest-scoring evaluated template other than the best one, the
\* first of them in template order.
HighestOther ==
    LET b == unit.resp.best_template_index
        others == EvaluatedTemplates \ {b}
    IN  CHOOSE i \in others :
            \A j \in others : \/ AnsweredResults[j].score < AnsweredResults[i].score
                              \/ (AnsweredResults[j].score = AnsweredResults[i].score
                                  /\ i <= j)

\* The primary margin: best score - required_score >= 3 for a precomputed
\* best template, >= 5 otherwise.
PrimaryMarginHolds ==
    LET best == AnsweredResults[unit.resp.best_template_index]
    IN  best.score - best.required_score >= (IF best.is_precomputed THEN 3 ELSE 5)

\* The tier gates as stated: shares of the threshold taken exactly, a weak
\* best asking only for an accepted secondary.
TierGateAsStated ==
    LET best == AnsweredResults[unit.resp.best_template_index]
        s == AnsweredResults[HighestOther]
    IN  IF best.score >= 70
        THEN s.score >= 45 /\ 100 * s.score >= 85 * s.threshold_used
        ELSE IF best.score >= 60
        THEN \/ s.score >= 45 /\ 100 * s.score >= 80 * s.threshold_used
             \/ s.is_precomputed /\ s.score >= s.required_score - 2
        ELSE s.accepted

\* The tier gates with the shares of the threshold rounded down and the
\* floor of 45 kept in every tier.
TierGateFloored ==
    LET best == AnsweredResults[unit.resp.best_template_index]
        s == AnsweredResults[HighestOther]
    IN  /\ s.score >= 45
        /\ IF best.score >= 70
           THEN s.score >= (85 * s.threshold_used) \div 100
           ELSE IF best.score >= 60
           THEN \/ s.score >= (80 * s.threshold_used) \div 100
                \/ s.is_precomputed /\ s.score >= s.required_score - 2
           ELSE s.accepted

\* C24 as stated (SpecVerify): with two evaluated templates or more and an
\* accepted best template, the answer stays accepted exactly when the
\* highest-scoring other template passes the tier gate of the best score
\* (70 or more: score >= 45 and >= 85% of its threshold; 60-69: score >= 45
\* and >= 80% of its threshold, or precomputed and within 2 points of its
\* required score; below 60: itself accepted) and the primary margin holds;
\* otherwise it is accepted=false with secondary_template_disagrees.
C24_SecondaryTierGates ==
    AcceptedBestAmongSeveral =>
        /\ unit.resp.accepted <=> (TierGateAsStated /\ PrimaryMarginHolds)
        /\ ~unit.resp.accepted =>
              unit.resp.decision_reason = "secondary_template_disagrees"

\* C24 (SpecVerify): with two evaluated templates or more and an accepted
\* best template, the answer stays accepted exactly when the
\* highest-scoring other template scores 45 or more and passes the tier gate
\* of the best score (70 or more: score >= floor(85% of its threshold);
\* 60-69: score >= floor(80% of its threshold), or precomputed and within 2
\* points of its required score; below 60: itself accepted) and the primary
\* margin holds; otherwise it is accepted=false with
\* secondary_template_disagrees.
C24_SecondaryTierGatesFloored ==
    AcceptedBestAmongSeveral =>
        /\ unit.resp.accepted <=> (TierGateFloored /\ PrimaryMarginHolds)
        /\ unit.resp.accepted => unit.resp.decision_reason = "match_found"
        /\ ~unit.resp.accepted =>
              unit.resp.decision_reason = "secondary_template_disagrees"

\* A weak best template (52) beside a precomputed one the Matcher accepted
\* below 45: the answer is turned down.
C24_Witness ==
    /\ AcceptedBestAmongSeveral
    /\ AnsweredResults[unit.resp.best_template_index].score = 52
    /\ AnsweredResults[HighestOther].accepted
    /\ AnsweredResults[HighestOther].score = 43
    /\ PrimaryMarginHolds
    /\ unit.resp.decision_reason = "secondary_template_disagrees"

\* ------------------------------------------------------------------------
\* The Matcher as a function of its inputs (SpecMatcher): a pair of feature
\* sets with the score the ratio test gives them is put to
\* match_feature_sets in strict and in non-strict mode; a threshold is put
\* to compute_margin.
\* ------------------------------------------------------------------------
MaxThreshold == 120

MatcherProbeKps ==
    {MIN_DESCRIPTORS - 1, MIN_DESCRIPTORS, FP_MIN_KEYPOINTS_WARN - 1,
     FP_MIN_KEYPOINTS_WARN, FP_MIN_KEYPOINTS, MaxKeypoints}
MatcherTemplateKps == {MIN_DESCRIPTORS - 1, FP_MIN_KEYPOINTS, MaxKeypoints}
MatcherScores == {0, 100, 110} \cup (35..70)
MatcherOverrides == {None, Some(-5), Some(0), Some(30), Some(60), Some(100)}

\* A feature set as prepare_features (lines 1207-1224) or
\* load_precomputed_template (lines 1096-1146) returns it.
FeatureSet(kp, is_precomputed) ==
    [success |-> kp >= MIN_DESCRIPTORS, keypoints |-> kp,
     error |-> IF kp >= MIN_DESCRIPTORS THEN "None" ELSE "insufficient_features",
     is_precomputed |-> is_precomputed]

\* Lines 1295-1305 on a feature set matched against itself: each descriptor
\* has itself at distance 0 as nearest neighbour, and passes the ratio test
\* 0 < FP_RATIO * d2 unless another descriptor of the set equals it.
\* `twins` is the number of descriptors that have an equal one in the set.
KnnSelfScore(kp, twins) == kp - twins

\* Pairs of feature sets with a score: the ratio test keeps at most one
\* match per probe descriptor.
PairInputs ==
    {[self |-> FALSE, probe |-> FeatureSet(pk, FALSE), template |-> FeatureSet(tk, pre),
      score |-> sc, threshold_override |-> ov] :
        pk \in MatcherProbeKps, tk \in MatcherTemplateKps, pre \in BOOLEAN,
        sc \in MatcherScores, ov \in MatcherOverrides}

\* A feature set matched against itself.
SelfInputs ==
    {[self |-> TRUE, probe |-> FeatureSet(pk, FALSE), template |-> FeatureSet(pk, FALSE),
      score |-> KnnSelfScore(pk, tw), threshold_override |-> ov] :
        pk \in MatcherProbeKps, tw \in {0, 2, MIN_DESCRIPTORS},
        ov \in {None, Some(MaxKeypoints + 1)}}

MatcherInputs == {in \in PairInputs \cup SelfInputs :
                     in.score >= 0 /\ in.score <= in.probe.keypoints}

InitMatcher ==
    /\ IndexUnused
    /\ \/ \E in \in MatcherInputs :
            unit = [fn |-> "match_feature_sets", phase |-> "given", in |-> in,
                    done |-> {},
                    strict |-> BaseMatchPayload(in.probe, in.template),
                    lenient |-> BaseMatchPayload(in.probe, in.template)]
       \/ \E t \in 1..MaxThreshold :
            unit = [fn |-> "compute_margin", phase |-> "given", threshold |-> t,
                    margin |-> 0]

MatchStrict ==
    /\ unit.fn = "match_feature_sets" /\ "strict" \notin unit.done
    /\ unit' = [unit EXCEPT
                  !.done = @ \cup {"strict"},
                  !.strict = match_feature_sets(unit.in.probe, unit.in.template,
                                                unit.in.score,
                                                unit.in.threshold_override, TRUE)]
    /\ UNCHANGED IndexVars

MatchLenient ==
    /\ unit.fn = "match_feature_sets" /\ "lenient" \notin unit.done
    /\ unit' = [unit EXCEPT
                  !.done = @ \cup {"lenient"},
                  !.lenient = match_feature_sets(unit.in.probe, unit.in.template,
                                                 unit.in.score,
                                                 unit.in.threshold_override, FALSE)]
    /\ UNCHANGED IndexVars

ComputeMargin ==
    /\ unit.fn = "compute_margin" /\ unit.phase = "given"
    /\ unit' = [unit EXCEPT !.phase = "computed",
                            !.margin = compute_margin(unit.threshold)]
    /\ UNCHANGED IndexVars

NextMatcher == MatchStrict \/ MatchLenient \/ ComputeMargin

SpecMatcher == InitMatcher /\ [][NextMatcher]_vars

\* ------------------------------------------------------------------------
\* Properties of the Matcher (SpecMatcher)
\* ------------------------------------------------------------------------
Matched(modes) == unit.fn = "match_feature_sets" /\ modes \subseteq unit.done

\* C13 (SpecMatcher): for every pair of feature sets, score, keypoint
\* counts, is_precomputed and threshold override, what match_feature_sets
\* accepts with strict_mode=True it accepts with strict_mode=False.
C13_StrictAcceptImpliesLenient ==
    (Matched({"strict", "lenient"}) /\ unit.strict.accepted) => unit.lenient.accepted

\* A precomputed template under an overridden threshold of 60, accepted in
\* both modes.
C13_Witness ==
    /\ Matched({"strict", "lenient"})
    /\ unit.in.template.is_precomputed /\ unit.in.threshold_override = Some(60)
    /\ unit.strict.accepted /\ unit.lenient.accepted
    /\ unit.strict.score = unit.strict.required_score

\* A successfully extracted feature set was matched against itself with the
\* default threshold, in the default (non-strict) mode.
SelfMatched ==
    /\ Matched({"lenient"}) /\ unit.in.self
    /\ unit.in.probe.success /\ unit.in.threshold_override = None

\* C14 as stated (SpecMatcher): for every valid probe p (10 keypoints or
\* more), match_feature_sets(p, p) returns accepted=true, score >=
\* threshold + margin and reason "match".
C14_SelfMatchAccepted ==
    SelfMatched =>
        /\ unit.lenient.accepted
        /\ unit.lenient.score >= unit.lenient.threshold_used
                                 + compute_margin(unit.lenient.threshold_used)
        /\ unit.lenient.reason = "match"

\* C14 (SpecMatcher): for every probe p of FP_MIN_KEYPOINTS_WARN keypoints
\* or more whose descriptors are pairwise different, match_feature_sets(p, p)
\* scores every keypoint and returns accepted=true, score >= threshold +
\* margin and reason "match", in strict mode too; a valid probe of fewer
\* keypoints is turned down with reason probe_low_quality.
C14_GoodSelfMatchAccepted ==
    SelfMatched =>
        IF unit.in.probe.keypoints < FP_MIN_KEYPOINTS_WARN
        THEN ~unit.lenient.accepted /\ unit.lenient.reason = "probe_low_quality"
        ELSE unit.in.score = unit.in.probe.keypoints =>
                /\ unit.lenient.accepted
                /\ unit.lenient.score = unit.in.probe.keypoints
                /\ unit.lenient.score >= unit.lenient.threshold_used
                                         + compute_margin(unit.lenient.threshold_used)
                /\ unit.lenient.required_score
                      = unit.lenient.threshold_used
                        + compute_margin(unit.lenient.threshold_used)
                /\ unit.lenient.reason = "match"
                /\ "strict" \in unit.done =>
                      unit.strict.accepted /\ unit.strict.reason = "match"

\* A probe of exactly FP_MIN_KEYPOINTS_WARN different descriptors matched
\* against itself in both modes.
C14_Witness ==
    /\ SelfMatched /\ "strict" \in unit.done
    /\ unit.in.probe.keypoints = FP_MIN_KEYPOINTS_WARN
    /\ unit.in.score = FP_MIN_KEYPOINTS_WARN
    /\ unit.lenient.accepted /\ unit.strict.accepted

MarginComputed == unit.fn = "compute_margin" /\ unit.phase = "computed"

\* C15 as stated (SpecMatcher): for every threshold T >= 1 the margin of
\* compute_margin is at least FP_MARGIN_BASE and at least
\* FP_MARGIN_PERCENT * T.
C15_MarginAtLeastPercent ==
    MarginComputed =>
        /\ unit.margin >= FP_MARGIN_BASE
        /\ 100 * unit.margin >= FP_MARGIN_PERCENT_PCT * unit.threshold

\* C15 (SpecMatcher): for every threshold T >= 1 the margin of
\* compute_margin is at least FP_MARGIN_BASE and at least
\* FP_MARGIN_PERCENT * T - 1/2 (the percent margin is rounded to the
\* nearest integer, halves to the even one), it is less than
\* FP_MARGIN_PERCENT * T + 1/2 once above FP_MARGIN_BASE, and it never
\* decreases as T grows.
C15_MarginAtLeastPercentRounded ==
    MarginComputed =>
        /\ unit.margin >= FP_MARGIN_BASE
        /\ 100 * unit.margin >= FP_MARGIN_PERCENT_PCT * unit.threshold - 50
        /\ unit.margin > FP_MARGIN_BASE =>
              100 * unit.margin <= FP_MARGIN_PERCENT_PCT * unit.threshold + 50
        /\ \A t \in 1..unit.threshold : compute_margin(t) <= unit.margin

\* The default threshold 45: 4.5 is rounded down to the margin 4.
C15_Witness ==
    /\ MarginComputed /\ unit.threshold = FP_MIN_BASE /\ unit.margin = 4

\* Both feature sets were extracted and have MIN_DESCRIPTORS descriptors or
\* more, and match_feature_sets has answered in the given modes.
Compared(modes) ==
    /\ Matched(modes)
    /\ unit.in.probe.success /\ unit.in.template.success
    /\ unit.in.probe.keypoints >= MIN_DESCRIPTORS
    /\ unit.in.template.keypoints >= MIN_DESCRIPTORS

\* The name of the first gate a result violates, in the order of strict
\* mode; "match" when it violates none.
FirstViolatedStrictGate(r) ==
    IF r.probe_keypoints < FP_MIN_KEYPOINTS_WARN THEN "probe_low_quality"
    ELSE IF r.score < FP_ABS_MIN_SCORE THEN "score_below_abs_min"
    ELSE IF r.score < r.threshold_used THEN "score_below_threshold"
    ELSE IF r.score < r.required_score THEN "insufficient_margin"
    ELSE IF r.confidence < r.confidence_required THEN "confidence_low"
    ELSE "match"

\* The same comparison with the template's is_precomputed flag inverted.
StrictWithFlagInverted ==
    match_feature_sets(unit.in.probe,
                       [unit.in.template EXCEPT !.is_precomputed = ~@],
                       unit.in.score, unit.in.threshold_override, TRUE)

\* C21 (SpecMatcher): with strict_mode=True and two successful feature sets
\* of at least 10 descriptors, match_feature_sets accepts exactly when probe
\* keypoints >= FP_MIN_KEYPOINTS_WARN, score >= FP_ABS_MIN_SCORE, score >=
\* threshold, score >= required_score and confidence >= required confidence;
\* otherwise the reason names the first violated gate in the order
\* probe_low_quality, score_below_abs_min, score_below_threshold,
\* insufficient_margin, confidence_low.  The threshold is
\* compute_threshold of the smaller keypoint count, required_score is
\* threshold + margin, and inverting is_precomputed changes neither verdict
\* nor reason nor any number of the result.
C21_StrictGatesInOrder ==
    Compared({"strict"}) =>
        LET r == unit.strict
        IN  /\ r.score = unit.in.score
            /\ r.threshold_used
                  = compute_threshold(Min(unit.in.probe.keypoints,
                                          unit.in.template.keypoints),
                                      unit.in.threshold_override)
            /\ r.required_score = r.threshold_used + compute_margin(r.threshold_used)
            /\ r.reason = FirstViolatedStrictGate(r)
            /\ r.accepted <=> (r.reason = "match")
            /\ r.accepted <=>
                  /\ unit.in.probe.keypoints >= FP_MIN_KEYPOINTS_WARN
                  /\ r.score >= FP_ABS_MIN_SCORE
                  /\ r.score >= r.threshold_used
                  /\ r.score >= r.required_score
                  /\ r.confidence >= r.confidence_required
            /\ StrictWithFlagInverted
                  = [r EXCEPT !.is_precomputed = ~unit.in.template.is_precomputed]

\* A precomputed template in strict mode under the threshold 30: a score
\* between the threshold and FP_ABS_MIN_SCORE falls at the absolute minimum.
C21_Witness ==
    /\ Compared({"strict"}) /\ unit.in.template.is_precomputed
    /\ unit.in.threshold_override = Some(30)
    /\ unit.strict.score >= unit.strict.required_score
    /\ unit.strict.score < FP_ABS_MIN_SCORE
    /\ unit.strict.reason = "score_below_abs_min"

\* A precomputed template was compared in non-strict mode and the probe
\* passed the quality gate.
LenientPrecomputed ==
    /\ Compared({"lenient"}) /\ unit.in.template.is_precomputed
    /\ unit.in.probe.keypoints >= FP_MIN_KEYPOINTS_WARN

\* The first gate a non-strict result on a precomputed template violates,
\* given the lenient threshold.
FirstViolatedLenientGate(r, lenient_threshold) ==
    IF r.score < Max(38, (FP_ABS_MIN_SCORE * 85) \div 100) THEN "score_below_abs_min"
    ELSE IF r.score < lenient_threshold THEN "score_below_threshold"
    ELSE IF r.score < lenient_threshold + 3 THEN "insufficient_margin"
    ELSE IF r.confidence < r.confidence_required THEN "confidence_low"
    ELSE "match"

\* A template that is not precomputed gets in non-strict mode the verdict,
\* the reason and the numbers of strict mode.
LenientPlainIsStrict ==
    (Compared({"strict", "lenient"}) /\ ~unit.in.template.is_precomputed)
        => unit.lenient = unit.strict

\* C22 as stated (SpecMatcher): with strict_mode=False and a precomputed
\* template the absolute floor is max(38, floor(FP_ABS_MIN_SCORE * 0.85)),
\* the lenient threshold is threshold - 7, a score below it is rejected
\* with score_below_threshold, a score below lenient threshold + 3 with
\* insufficient_margin, and then the confidence gate applies; a template
\* that is not precomputed is judged as in strict mode.
C22_LenientThresholdSevenBelow ==
    /\ LenientPrecomputed =>
          LET r == unit.lenient
          IN  /\ r.reason = FirstViolatedLenientGate(r, r.threshold_used - 7)
              /\ r.accepted <=> (r.reason = "match")
    /\ LenientPlainIsStrict

\* C22 (SpecMatcher): with strict_mode=False and a precomputed template the
\* absolute floor is max(38, floor(FP_ABS_MIN_SCORE * 0.85)) = 38 and the
\* lenient threshold is max(floor, threshold - 7): threshold - 7 for
\* thresholds of 45 or more, 38 for the lower ones an override can set.  A
\* score below the lenient threshold is rejected with
\* score_below_threshold, one below lenient threshold + 3 with
\* insufficient_margin, and then the confidence gate applies; a template
\* that is not precomputed is judged as in strict mode.
C22_LenientThresholdClamped ==
    /\ LenientPrecomputed =>
          LET r == unit.lenient
              floor == Max(38, (FP_ABS_MIN_SCORE * 85) \div 100)
          IN  /\ floor = 38
              /\ r.reason = FirstViolatedLenientGate(r, Max(floor, r.threshold_used - 7))
              /\ r.accepted <=> (r.reason = "match")
              /\ r.threshold_used >= FP_ABS_MIN_SCORE =>
                    r.reason = FirstViolatedLenientGate(r, r.threshold_used - 7)
    /\ LenientPlainIsStrict

\* A precomputed template under the threshold 30: the score 40 is above
\* threshold - 7 + 3 and is turned down three points short of the floor's
\* margin.
C22_Witness ==
    /\ LenientPrecomputed /\ unit.in.threshold_override = Some(30)
    /\ unit.lenient.score = 40 /\ unit.lenient.threshold_used = 30
    /\ unit.lenient.reason = "insufficient_margin"

\* The lowest score non-strict mode accepts on a precomputed template: the
\* floor max(38, floor(FP_ABS_MIN_SCORE * 0.85)) and the margin of 3.
LenientAcceptFloor == Max(38, (FP_ABS_MIN_SCORE * 85) \div 100) + 3

\* C29 (SpecMatcher): for every threshold_override, 0 and negative values
\* included, match_feature_sets never accepts a score below
\* FP_ABS_MIN_SCORE in strict mode or on a template that is not
\* precomputed, nor a score below 41 on a precomputed template in
\* non-strict mode.
C29_OverrideKeepsFloor ==
    /\ LenientAcceptFloor = 41
    /\ (Matched({"strict"}) /\ unit.strict.accepted)
          => unit.strict.score >= FP_ABS_MIN_SCORE
    /\ (Matched({"lenient"}) /\ unit.lenient.accepted)
          => IF unit.in.template.is_precomputed
             THEN unit.lenient.score >= LenientAcceptFloor
             ELSE unit.lenient.score >= FP_ABS_MIN_SCORE

\* Under a negative override the threshold is 1; a precomputed template is
\* accepted at 41 in non-strict mode and a score of 44 is refused in strict
\* mode, far above the required score.
C29_Witness ==
    /\ Matched({"strict", "lenient"}) /\ unit.in.threshold_override = Some(-5)
    /\ unit.in.template.is_precomputed
    /\ unit.strict.threshold_used = 1
    /\ \/ unit.in.score = LenientAcceptFloor /\ unit.lenient.accepted
       \/ unit.in.score = FP_ABS_MIN_SCORE - 1 /\ ~unit.strict.accepted
          /\ unit.strict.score > unit.strict.required_score

\* C30 (SpecMatcher): with the default parameters match_feature_sets never
\* answers confidence_low, in either mode, for any score, keypoint counts,
\* is_precomputed and threshold override: a result that passed the score
\* gates has confidence >= the required confidence, and exactly 100 in
\* strict mode.
C30_NeverConfidenceLow ==
    /\ Matched({"strict"}) =>
          /\ unit.strict.reason # "confidence_low"
          /\ unit.strict.reason = "match" => unit.strict.confidence = 100
          /\ (Compared({"strict"}) /\ unit.strict.probe_quality_ok
              /\ StrictGates(unit.strict.score, unit.strict.threshold_used,
                             unit.strict.required_score) = "pass")
                => unit.strict.accepted
    /\ Matched({"lenient"}) =>
          /\ unit.lenient.reason # "confidence_low"
          /\ (Compared({"lenient"}) /\ unit.lenient.probe_quality_ok
              /\ LenientGates(unit.lenient.score, unit.lenient.threshold_used,
                              unit.lenient.required_score,
                              unit.in.template.is_precomputed) = "pass")
                => /\ unit.lenient.accepted
                   /\ unit.lenient.confidence >= unit.lenient.confidence_required

\* Two sets of MaxKeypoints keypoints (required confidence FP_CONF_HIGH):
\* the precomputed template passes the lenient gates four points below its
\* threshold, with a confidence short of 100.
C30_Witness ==
    /\ Matched({"lenient"}) /\ unit.in.template.is_precomputed
    /\ unit.lenient.min_keypoints >= FP_HIGH_CONF_KP
    /\ unit.lenient.confidence_required = FP_CONF_HIGH
    /\ unit.lenient.score = unit.lenient.threshold_used - 4
    /\ unit.lenient.confidence < 100
    /\ unit.lenient.accepted

\* ------------------------------------------------------------------------
\* The template codec (SpecCodec): serialize_keypoints_descriptors (lines
\* 880-931), deserialize_keypoints_descriptors (lines 933-1016) and
\* is_precomputed_template (lines 1018-1082).
\*
\* Numbers.  A float is kept as its number of eighths; the float32 values
\* (keypoint fields of cv2.KeyPoint, cells of the descriptor matrix) are the
\* even ones, the Python floats of the JSON document may be odd.
\* A JSON number is its decimal text: [null, neg, int, frac], frac being
\* the digits after the point (empty for an integer), null marking the
\* text null.
\* ------------------------------------------------------------------------
\* float(v) and ndarray.tolist(): a float32 as a Python float.
ToPythonFloat(v) == v

\* np.array(..., dtype=np.float32) and cv2.KeyPoint(x=...): the nearest
\* float32, halves to the even mantissa.
ToFloat32(w) ==
    IF w % 2 = 0 THEN w
    ELSE IF ((w - 1) \div 2) % 2 = 0 THEN w - 1 ELSE w + 1

\* The digits of r eighths after the decimal point, as repr() writes them.
FracDigits(r) ==
    LET t == r * 125
    IN  IF t % 100 = 0 THEN <<t \div 100>>
        ELSE IF t % 10 = 0 THEN <<t \div 100, (t \div 10) % 10>>
        ELSE <<t \div 100, (t \div 10) % 10, t % 10>>

\* A float written with one digit after the point.
FloatTextOneDecimal(w) ==
    [null |-> FALSE, neg |-> FALSE, int |-> w \div 8,
     frac |-> <<((w % 8) * 125) \div 100>>]

\* json.dumps of a non-negative Python float.
FloatText(w) ==
    [null |-> FALSE, neg |-> FALSE, int |-> w \div 8, frac |-> FracDigits(w % 8)]

\* json.dumps of an int.
IntText(n) ==
    [null |-> FALSE, neg |-> n < 0, int |-> IF n < 0 THEN -n ELSE n, frac |-> <<>>]

\* json.dumps of None.
NullText == [null |-> TRUE, neg |-> FALSE, int |-> 0, frac |-> <<>>]

\* json.loads of a number with a decimal point, then float(): eighths.
ParseFloat(t) ==
    LET d == t.frac
        thousandths == IF Len(d) = 0 THEN 0
                       ELSE IF Len(d) = 1 THEN d[1] * 100
                       ELSE IF Len(d) = 2 THEN d[1] * 100 + d[2] * 10
                       ELSE d[1] * 100 + d[2] * 10 + d[3]
    IN  t.int * 8 + thousandths \div 125

\* json.loads of an integer, then int().
ParseInt(t) == IF t.neg THEN -t.int ELSE t.int

RECURSIVE DigitCount(_)
DigitCount(n) == IF n < 10 THEN 1 ELSE 1 + DigitCount(n \div 10)

\* The number of characters of a number's text.
NumberLength(t) ==
    IF t.null THEN 4
    ELSE (IF t.neg THEN 1 ELSE 0) + DigitCount(t.int)
         + (IF Len(t.frac) = 0 THEN 0 ELSE 1 + Len(t.frac))

RECURSIVE SumOver(_, _, _)
SumOver(f, i, n) == IF i > n THEN 0 ELSE f[i] + SumOver(f, i + 1, n)

\* The characters of a keypoint dictionary and of the document that are
\* not digits of a number nor letters of the method (lines 899-920, with
\* the separators ", " and ": " of json.dumps).
KEYPOINT_TEXT_CHARS == 75
DOCUMENT_TEXT_CHARS == 73
\* The bytes gzip adds to a text: header, block header and trailer.
GZIP_OVERHEAD == 23
\* Lines 943 and 1028, 1054, 1063: the lengths the readers look at.
MIN_TEMPLATE_CHARS == 100
TRUNCATED_TEMPLATE_CHARS == 5000
LONG_TEMPLATE_CHARS == 10000

KeypointFields == <<"x", "y", "size", "angle", "response", "octave", "class_id">>

\* Lines 898-907: one keypoint as a dictionary of JSON numbers.
KeypointDict(kp) ==
    [x        |-> FloatText(ToPythonFloat(kp.x)),
     y        |-> FloatText(ToPythonFloat(kp.y)),
     size     |-> FloatText(ToPythonFloat(kp.size)),
     angle    |-> FloatText(ToPythonFloat(kp.angle)),
     response |-> FloatText(ToPythonFloat(kp.response)),
     octave   |-> IntText(kp.octave),
     class_id |-> IntText(kp.class_id)]

\* Lines 913-923: template_data as the JSON document json.dumps writes.
\* roi_shape is <<>> for None, <<height, width>> otherwise.
json_dumps_template(keypoints, descriptors, enhancement_method, roi_shape) ==
    [method   |-> enhancement_method,
     kp_count |-> IntText(Len(keypoints)),
     roi_w    |-> IF roi_shape = <<>> THEN NullText ELSE IntText(roi_shape[2]),
     roi_h    |-> IF roi_shape = <<>> THEN NullText ELSE IntText(roi_shape[1]),
     kpts     |-> [i \in 1..Len(keypoints) |-> KeypointDict(keypoints[i])],
     des      |-> [i \in 1..Len(descriptors) |->
                     [j \in 1..Len(descriptors[i]) |->
                         FloatText(ToPythonFloat(descriptors[i][j]))]]]

\* The number of characters of the document's text.
TextLength(doc) ==
    LET n == Len(doc.kpts)
        kpLen == [i \in 1..n |->
                    KEYPOINT_TEXT_CHARS
                    + SumOver([f \in 1..Len(KeypointFields) |->
                                  NumberLength(doc.kpts[i][KeypointFields[f]])],
                              1, Len(KeypointFields))]
        m == Len(doc.des)
        rowLen == [i \in 1..m |->
                     2 + SumOver([j \in 1..Len(doc.des[i]) |->
                                     NumberLength(doc.des[i][j])],
                                 1, Len(doc.des[i]))
                     + 2 * Max(0, Len(doc.des[i]) - 1)]
    IN  DOCUMENT_TEXT_CHARS
        + (IF doc.method = "professional" THEN 12 ELSE 5)
        + NumberLength(doc.kp_count) + NumberLength(doc.roi_w)
        + NumberLength(doc.roi_h)
        + SumOver(kpLen, 1, n) + 2 * Max(0, n - 1)
        + SumOver(rowLen, 1, m) + 2 * Max(0, m - 1)

\* gzip.compress (line 926): the gzip magic and the deflate method, then
\* the text.  The text is kept whole (a stored block), so the size of the
\* stream is the size of the text plus GZIP_OVERHEAD.
gzip_compress(doc) ==
    [magic |-> <<31, 139, 8>>, size |-> TextLength(doc) + GZIP_OVERHEAD,
     intact |-> TRUE, json |-> TRUE, text |-> doc]

\* The base64 alphabet, and the four characters that encode three bytes.
Base64Alphabet ==
    <<"A", "B", "C", "D", "E", "F", "G", "H", "I", "J", "K", "L", "M", "N", "O", "P",
      "Q", "R", "S", "T", "U", "V", "W", "X", "Y", "Z", "a", "b", "c", "d", "e", "f",
      "g", "h", "i", "j", "k", "l", "m", "n", "o", "p", "q", "r", "s", "t", "u", "v",
      "w", "x", "y", "z", "0", "1", "2", "3", "4", "5", "6", "7", "8", "9", "+", "/">>

Base64Quad(b) ==
    <<Base64Alphabet[(b[1] \div 4) + 1],
      Base64Alphabet[((b[1] % 4) * 16 + b[2] \div 16) + 1],
      Base64Alphabet[((b[2] % 16) * 4 + b[3] \div 64) + 1],
      Base64Alphabet[(b[3] % 64) + 1]>>

\* base64.b64encode(...).decode (line 929): a string is its first four
\* characters, its length, and the bytes it encodes.
b64encode(bytes) ==
    [none |-> FALSE, head |-> Base64Quad(bytes.magic),
     length |-> 4 * ((bytes.size + 2) \div 3), bytes |-> bytes]

\* Python's None in place of a string.
NoDocument == [missing |-> TRUE]
NoBytes == [magic |-> <<0, 0, 0>>, size |-> 0, intact |-> FALSE, json |-> FALSE,
            text |-> NoDocument]
NoString == [none |-> TRUE, head |-> <<>>, length |-> 0, bytes |-> NoBytes]

\* Lines 893-931.
serialize_keypoints_descriptors(keypoints, descriptors, enhancement_method, roi_shape) ==
    IF Len(keypoints) = 0 THEN NoString
    ELSE b64encode(gzip_compress(
            json_dumps_template(keypoints, descriptors, enhancement_method, roi_shape)))

\* base64.b64decode, gzip.decompress, decode and json.loads in a row
\* (lines 950-965, 1040-1043, 1065-1070): the parsed document, or a failure
\* when the bytes are no gzip stream, the stream is cut short, or its text
\* is no JSON.
DecodeDocument(str) ==
    LET bytes == str.bytes
    IN  IF bytes.magic = <<31, 139, 8>> /\ bytes.intact /\ bytes.json
        THEN [ok |-> TRUE, data |-> bytes.text]
        ELSE [ok |-> FALSE, data |-> NoDocument]

HasTemplateKeys(data) == {"kpts", "des"} \subseteq DOMAIN data

\* Lines 1018-1082.
is_precomputed_template(template_data) ==
    IF template_data.none \/ template_data.length < MIN_TEMPLATE_CHARS THEN FALSE
    ELSE IF template_data.head = <<"H", "4", "s", "I">>
    THEN LET decoded == DecodeDocument(template_data)
         IN  IF decoded.ok THEN HasTemplateKeys(decoded.data)
             ELSE template_data.length >= TRUNCATED_TEMPLATE_CHARS
    ELSE IF template_data.length > LONG_TEMPLATE_CHARS
    THEN LET decoded == DecodeDocument(template_data)
         IN  decoded.ok /\ HasTemplateKeys(decoded.data)
    ELSE FALSE

\* Lines 976-989: a keypoint rebuilt from its dictionary.
KeypointOf(kp_dict) ==
    [x        |-> ToFloat32(ParseFloat(kp_dict.x)),
     y        |-> ToFloat32(ParseFloat(kp_dict.y)),
     size     |-> ToFloat32(ParseFloat(kp_dict.size)),
     angle    |-> ToFloat32(ParseFloat(kp_dict.angle)),
     response |-> ToFloat32(ParseFloat(kp_dict.response)),
     octave   |-> ParseInt(kp_dict.octave),
     class_id |-> ParseInt(kp_dict.class_id)]

NotDeserialized == [ok |-> FALSE, keypoints |-> <<>>, descriptors |-> <<>>]

\* Lines 933-1016: (keypoints, descriptors), or None.
deserialize_keypoints_descriptors(b64_compressed_json) ==
    IF b64_compressed_json.none \/ b64_compressed_json.length < MIN_TEMPLATE_CHARS
    THEN NotDeserialized
    ELSE LET decoded == DecodeDocument(b64_compressed_json)
         IN  IF ~decoded.ok THEN NotDeserialized
             ELSE IF ~HasTemplateKeys(decoded.data) THEN NotDeserialized
             ELSE LET template_data == decoded.data
                  IN  [ok |-> TRUE,
                       keypoints |-> [i \in 1..Len(template_data.kpts) |->
                                         KeypointOf(template_data.kpts[i])],
                       descriptors |->
                          [i \in 1..Len(template_data.des) |->
                              [j \in 1..Len(template_data.des[i]) |->
                                  ToFloat32(ParseFloat(template_data.des[i][j]))]]]

\* The inputs: feature sets of 0, 1, 10 and MaxCodecKeypoints keypoints with
\* descriptor rows of DescriptorDim cells, and strings that no serializer
\* wrote.
MaxCodecKeypoints == 11
DescriptorDim == 2
CodecPatterns == 1..3

\* Keypoint i and descriptor row i of the feature set of pattern p: float32
\* values, some with a fraction.
KeypointAt(i, p) ==
    [x |-> 2 * (4 * i + p), y |-> 2 * (7 * i + 2 * p + 1), size |-> 2 * (p + 8),
     angle |-> 2 * (4 * 45 * (i % 8)), response |-> 2 * p,
     octave |-> 256 * i + p, class_id |-> -1]

DescriptorRowAt(i, p) == [j \in 1..DescriptorDim |-> 2 * ((37 * i + 11 * j + p) % 1024)]

FeatureInputs ==
    {[kind |-> "features",
      keypoints |-> [i \in 1..n |-> KeypointAt(i, kp)],
      descriptors |-> [i \in 1..n |-> DescriptorRowAt(i, dp)],
      enhancement_method |-> m, roi_shape |-> roi] :
        n \in {0, 1, MIN_DESCRIPTORS, MaxCodecKeypoints},
        kp \in CodecPatterns, dp \in CodecPatterns,
        m \in {"professional", "basic"}, roi \in {<<>>, <<300, 200>>}}

\* Strings from elsewhere: a raw PNG in base64, a template cut short, the
\* gzip of another JSON document, the gzip of a template whose first bytes
\* were re-encoded.
ForeignStrings ==
    {[none |-> FALSE, head |-> Base64Quad(<<137, 80, 78>>), length |-> len,
      bytes |-> [magic |-> <<137, 80, 78>>, size |-> (len \div 4) * 3,
                 intact |-> FALSE, json |-> FALSE, text |-> NoDocument]] :
        len \in {MIN_TEMPLATE_CHARS - 4, 2000, LONG_TEMPLATE_CHARS + 4}}
    \cup
    {[none |-> FALSE, head |-> Base64Quad(<<31, 139, 8>>), length |-> len,
      bytes |-> [magic |-> <<31, 139, 8>>, size |-> (len \div 4) * 3,
                 intact |-> FALSE, json |-> FALSE, text |-> NoDocument]] :
        len \in {MIN_TEMPLATE_CHARS - 4, TRUNCATED_TEMPLATE_CHARS - 4,
                 TRUNCATED_TEMPLATE_CHARS}}
    \cup
    {[none |-> FALSE, head |-> Base64Quad(<<31, 139, 8>>), length |-> 200,
      bytes |-> [magic |-> <<31, 139, 8>>, size |-> 150,
                 intact |-> TRUE, json |-> TRUE, text |-> [method |-> "basic"]]]}

InitCodec ==
    /\ IndexUnused
    /\ \/ \E in \in FeatureInputs :
            unit = [fn |-> "codec", phase |-> "given", in |-> in,
                    string |-> NoString, done |-> {}, classified |-> FALSE,
                    decoded |-> NotDeserialized]
       \/ \E str \in ForeignStrings :
            unit = [fn |-> "codec", phase |-> "encoded",
                    in |-> [kind |-> "string"],
                    string |-> str, done |-> {}, classified |-> FALSE,
                    decoded |-> NotDeserialized]

Serialize ==
    /\ unit.fn = "codec" /\ unit.phase = "given"
    /\ unit' = [unit EXCEPT
                  !.phase = "encoded",
                  !.string = serialize_keypoints_descriptors(
                                unit.in.keypoints, unit.in.descriptors,
                                unit.in.enhancement_method, unit.in.roi_shape)]
    /\ UNCHANGED IndexVars

Classify ==
    /\ unit.fn = "codec" /\ unit.phase = "encoded" /\ "classified" \notin unit.done
    /\ unit' = [unit EXCEPT !.done = @ \cup {"classified"},
                            !.classified = is_precomputed_template(unit.string)]
    /\ UNCHANGED IndexVars

Deserialize ==
    /\ unit.fn = "codec" /\ unit.phase = "encoded" /\ "decoded" \notin unit.done
    /\ unit' = [unit EXCEPT !.done = @ \cup {"decoded"},
                            !.decoded = deserialize_keypoints_descriptors(unit.string)]
    /\ UNCHANGED IndexVars

NextCodec == Serialize \/ Classify \/ Deserialize

SpecCodec == InitCodec /\ [][NextCodec]_vars

\* ------------------------------------------------------------------------
\* Properties of the codec (SpecCodec)
\* ------------------------------------------------------------------------
\* A feature set of 10 keypoints or more went through the serializer and
\* both readers.
RoundTripped ==
    /\ unit.fn = "codec" /\ unit.in.kind = "features"
    /\ Len(unit.in.keypoints) >= MIN_DESCRIPTORS
    /\ unit.done = {"classified", "decoded"}

\* C16 (SpecCodec): for every keypoint list and descriptor matrix with 10
\* keypoints or more, the string serialize_keypoints_descriptors writes is
\* classified as a template by is_precomputed_template, and
\* deserialize_keypoints_descriptors gives back a descriptor matrix equal
\* cell for cell and as many keypoints, in the same order.
C16_CodecRoundTrip ==
    RoundTripped =>
        /\ unit.classified
        /\ unit.decoded.ok
        /\ unit.decoded.descriptors = unit.in.descriptors
        /\ Len(unit.decoded.keypoints) = Len(unit.in.keypoints)
        /\ unit.decoded.keypoints = unit.in.keypoints

\* MaxCodecKeypoints keypoints with fractional coordinates made the round
\* trip; the string starts with H4sI.
C16_Witness ==
    /\ RoundTripped /\ Len(unit.in.keypoints) = MaxCodecKeypoints
    /\ unit.string.head = <<"H", "4", "s", "I">>
    /\ \E i \in 1..Len(unit.in.keypoints) : unit.in.keypoints[i].x % 8 # 0
    /\ unit.classified /\ unit.decoded.ok

\* ------------------------------------------------------------------------
\* Properties of match_templates under every completion order (SpecVerify)
\* ------------------------------------------------------------------------
\* The Matcher's result for every template of the request, whether or not
\* its worker got to deliver it.
MatcherResults ==
    [i \in TemplateIndices |->
        ProcessSingleTemplate(unit.in.templates[i], unit.in.probe_kp,
                              unit.in.threshold_override)]

\* No worker was lost: every future that completed carries the Matcher's
\* result.
NoWorkerLost == \A i \in TemplateIndices : unit.status[i] # "failed"

\* C17 (SpecVerify): for a fixed request and fixed per-template Matcher
\* results, best_template_index is the same under every completion order:
\* the accepted result with the highest score when a result is accepted,
\* the result with the highest score otherwise (the first of them in
\* template order).
C17_BestIsOrderIndependent ==
    (VerifyAnswered /\ NoWorkerLost) =>
        LET r == MatcherResults
            b == unit.resp.best_template_index
        IN  /\ b = SelectBestTemplate(r)
            /\ IF \E i \in TemplateIndices : r[i].accepted
               THEN r[b].accepted
                    /\ \A i \in TemplateIndices : r[i].accepted => r[i].score <= r[b].score
               ELSE \A i \in TemplateIndices : r[i].score <= r[b].score

\* C18 (SpecVerify): for every request that reaches template evaluation,
\* under every completion order, early exit and worker failure,
\* template_results holds exactly one entry per template of the request,
\* and the entry at position i has template_index i.
C18_OneEntryPerTemplateInOrder ==
    VerifyAnswered =>
        /\ Len(unit.resp.template_results) = Len(unit.in.templates)
        /\ \A i \in 1..Len(unit.resp.template_results) :
              unit.resp.template_results[i].template_index = i

\* Three templates: the third was collected first and ended the collection,
\* the first was cancelled in the queue, the second was lost with its
\* worker; the response lists all three in template order.
C18_Witness ==
    /\ VerifyAnswered /\ Len(unit.in.templates) = 3
    /\ unit.first = 3 /\ unit.resp.early_exit_used
    /\ unit.status[1] = "cancelled" /\ unit.status[2] = "failed"
    /\ unit.resp.template_results[1].reason = "cancelled_early_exit"
    /\ unit.resp.template_results[3].reason = "match"

\* The templates whose Matcher result ends the collection when collected.
Triggering ==
    {i \in TemplateIndices :
        EarlyExitTriggered(MatcherResults[i], Len(unit.in.templates))}

\* C25 (SpecVerify): for a fixed request and fixed per-template Matcher
\* results, accepted and decision_reason are the same under every
\* completion order, early exits included.  With at most one triggering
\* template there is an order that collects every result (the triggering
\* one last); every order is held to the verdict of that one.
C25_VerdictIsOrderIndependent ==
    (VerifyAnswered /\ NoWorkerLost /\ Cardinality(Triggering) <= 1) =>
        LET v == VerifyVerdict(MatcherResults)
        IN  /\ unit.resp.accepted = v.accepted
            /\ unit.resp.decision_reason = v.reason

\* C28 (SpecVerify): whenever match_templates answers accepted=true, the
\* best template's score is at least its required_score + 3, and at least
\* required_score + 5 when a single template was evaluated or the best one
\* is not precomputed; a precomputed template the non-strict Matcher let
\* through below its required score never makes an accepted answer.
C28_AcceptedHoldsPrimaryMargin ==
    (VerifyAnswered /\ unit.resp.accepted) =>
        LET best == AnsweredResults[unit.resp.best_template_index]
        IN  /\ unit.resp.best_score = best.score
            /\ best.required_score
                  = best.threshold_used + compute_margin(best.threshold_used)
            /\ best.score >= best.required_score + 3
            /\ (Cardinality(EvaluatedTemplates) <= 1 \/ ~best.is_precomputed)
                  => best.score >= best.required_score + 5

\* Two precomputed templates scoring 52, three points above the required
\* score 49: the answer is accepted.
C28_Witness ==
    /\ VerifyAnswered /\ unit.resp.accepted
    /\ Cardinality(EvaluatedTemplates) = 2
    /\ LET best == AnsweredResults[unit.resp.best_template_index]
       IN  best.is_precomputed /\ best.score = best.required_score + 3

\* ------------------------------------------------------------------------
\* Properties of the index builders (SpecSeq)
\* ------------------------------------------------------------------------
\* A sync_employee call for an employee whose id was in EMPLOYEE_IDS when
\* the call came in has returned.
SyncOfPresentDone(t) ==
    /\ th[t].op = "sync" /\ th[t].pc = "done"
    /\ \E j \in 1..Len(th[t].pre.EMPLOYEE_IDS) : th[t].pre.EMPLOYEE_IDS[j] = th[t].emp

\* C19 (SpecSeq): sync_employee(e) / add_employee_to_index(e) for an id e
\* already present in the index is rejected: the call does not report
\* success, and vectors, records, ids and accelerator stay as they were.
C19_SyncOfPresentIdRejected ==
    \A t \in Threads :
        SyncOfPresentDone(t) =>
            /\ th[t].result # "true"
            /\ th[t].resp.status # 200
            /\ globals = th[t].pre

\* ------------------------------------------------------------------------
\* Properties of the index under concurrent calls (Spec)
\* ------------------------------------------------------------------------
NoRepeats(s) == \A i, j \in 1..Len(s) : i # j => s[i] # s[j]

\* C26 (Spec): under every interleaving of sync_employee calls with each
\* other (two calls for the same employee included) and with rebuilds, no
\* employee id appears more than once in EMPLOYEE_IDS or in
\* EMPLOYEE_TEMPLATES.
C26_NoDuplicateEmployee ==
    /\ NoRepeats(globals.EMPLOYEE_IDS)
    /\ NoRepeats(IdsOf(globals.EMPLOYEE_TEMPLATES))

\* C27 (Spec): once every identify request of an interleaving has finished
\* (no call is running), FP_FORCE_BASIC equals its configured startup
\* value: the override set during feature extraction does not outlive the
\* requests that set it.
C27_FlagRestoredWhenQuiet ==
    Quiet => FP_FORCE_BASIC = configured_force_basic

\* ------------------------------------------------------------------------
\* rebuild_employee_index over stores of every shape (SpecRebuild): the
\* startup build and one reload_index call, the store held still.
\* ------------------------------------------------------------------------
\* An inactive employee whose fingerprint columns are still filled.
RowInactiveEnrolled == [RowEnrolled EXCEPT !.activo = FALSE]

\* An active employee whose only fingerprint is in slot 2.
RowSecondSlotOnly ==
    [activo |-> TRUE,
     gzip |-> <<"empty", "ok", "empty", "empty">>,
     png  |-> <<"empty", "empty", "empty", "empty">>,
     legacy_gzip |-> "empty", legacy_png |-> "empty", kp |-> 200]

\* An active employee whose only fingerprint does not load.
RowCorrupt ==
    [activo |-> TRUE,
     gzip |-> <<"corrupt", "empty", "empty", "empty">>,
     png  |-> <<"empty", "empty", "empty", "empty">>,
     legacy_gzip |-> "corrupt", legacy_png |-> "empty", kp |-> 200]

RowChoices == {RowAbsent, RowEnrolled, RowInactiveEnrolled, RowSecondSlotOnly, RowCorrupt}

InitRebuild ==
    /\ unit = NoUnit
    /\ db \in [Employees -> RowChoices]
    /\ PSYCOPG2_AVAILABLE \in BOOLEAN
    /\ FAISS_AVAILABLE \in BOOLEAN
    /\ configured_force_basic = FALSE
    /\ FP_FORCE_BASIC = configured_force_basic
    /\ globals = EmptyGlobals
    /\ stamp = [EMPLOYEE_VECTORS |-> 0, EMPLOYEE_TEMPLATES |-> 0, EMPLOYEE_IDS |-> 0,
                EMPLOYEE_INDEX_READY |-> 0, FAISS_INDEX |-> 0]
    /\ started = FALSE
    /\ th = [t \in Threads |-> Idle]
    /\ budget = [builds |-> 1, identify |-> 0, dbchanges |-> 0]

NextRebuild == Startup \/ StartReload(1) \/ RebuildScan(1) \/ RebuildWrite(1)

SpecRebuild == InitRebuild /\ [][NextRebuild]_vars

\* A fingerprint of the row loads from slot i: its compressed template or
\* its image is a good one.
SlotLoadable(row, i) == row.gzip[i] = "ok" \/ row.png[i] = "ok"

\* reload_index has returned and its rebuild reported success.
RebuildSucceeded(t) ==
    th[t].op = "reload" /\ th[t].pc = "done" /\ th[t].result = "true"

Indexed(e) ==
    \E j \in 1..Len(globals.EMPLOYEE_TEMPLATES) :
        globals.EMPLOYEE_TEMPLATES[j].employee_id = e

\* C20 (SpecRebuild): after a successful rebuild_employee_index every
\* active employee of the store with a loadable fingerprint in any slot has
\* a record in the index, and no inactive employee has one.
C20_RebuildCoversActiveLoadable ==
    \A t \in Threads :
        RebuildSucceeded(t) =>
            \A e \in Employees :
                /\ (db[e].activo /\ \E i \in 1..NUM_SLOTS : SlotLoadable(db[e], i))
                       => Indexed(e)
                /\ ~db[e].activo => ~Indexed(e)

====
